---- MODULE Spec2Model ----
(***************************************************************************)
(* The conversation orchestrator of octrafic-cli (internal/cli): the       *)
(* Bubble Tea model TestUIModel, its Update handlers, and the commands     *)
(* (tea.Cmd) they leave running.  Update runs one message at a time; a     *)
(* command runs in its own goroutine and its message is delivered later,   *)
(* in any order relative to the other commands and to the keyboard.        *)
(***************************************************************************)
EXTENDS Integers, Sequences, FiniteSets, Bags, TLC

\* Bounds of the model.
MaxCalls == 2      \* provider calls (sendChatMessage) in one run
MaxTests == 2      \* tests in the arguments of one ExecuteTestGroup call
MaxEsc == 1        \* Esc presses in one run
MaxQuit == 1       \* quit requests (Ctrl+C, /exit) in flight at a time

\* AgentState (part_014:25-35); the states no modelled handler enters are left out.
StateIdle == "Idle"
StateThinking == "Thinking"
StateUsingTool == "UsingTool"
StateProcessing == "Processing"
StateAskingConfirmation == "AskingConfirmation"
StateShowingTestPlan == "ShowingTestPlan"
StateRunningTests == "RunningTests"

\* ExecutionMode (part_014:39-42)
ModeAsk == "Ask"
ModeAutoExecute == "AutoExecute"

\* auth.AuthProvider values: the no-op provider and a configured bearer token.
NoAuth == "none"
Credentials == {"none", "bearer"}
\* auth.APIKeyAuth with Location "query" (unnamed/part_004:153-157), which the
\* wizards offer (cli/wizard.go:93, 151-155; unnamed/part_015:414-418).
APIKeyQuery == "apikey-query"
AllCredentials == Credentials \cup {APIKeyQuery}
\* The secret of a credential, as a word of a text.
CredentialValue == "credential value"

VARIABLES
    agentState,               \* m.agentState
    executionMode,            \* m.executionMode
    conversationHistory,      \* m.conversationHistory
    streamedToolCalls,        \* m.streamedToolCalls
    streamedAgentMessage,     \* m.streamedAgentMessage
    streamedTextChunk,        \* m.streamedTextChunk
    currentToolCall,          \* m.currentToolCall
    pendingToolCall,          \* m.pendingToolCall
    confirmationChoice,       \* m.confirmationChoice
    pendingTestGroupToolCall, \* m.pendingTestGroupToolCall
    tests,                    \* m.tests
    selectedTestIndex,        \* m.selectedTestIndex
    pendingTests,             \* m.pendingTests
    testGroupResults,         \* m.testGroupResults
    testGroupCompletedCount,  \* m.testGroupCompletedCount
    currentTestToolID,        \* m.currentTestToolID
    currentTestToolName,      \* m.currentTestToolName
    authProvider,             \* m.authProvider
    executorAuth,             \* m.testExecutor.authProvider
    lastMessage,              \* the kind of the last line added to m.messages
    cmds,                     \* bag of the commands in flight
    inputTokens,              \* m.inputTokens
    outputTokens,             \* m.outputTokens
    calls,                    \* provider calls made so far
    usageLog,                 \* history variable: the usage each successful provider call reported
    escs,                     \* Esc presses so far
    httpLog,                  \* history variable: the HTTP test requests sent
    batchTests,               \* history variable: queue each test group started with
    refused,                  \* history variable: ids of the tool calls denied or skipped
    lastOp,                   \* history variable: the handler that ran last
    contentStream,            \* the content the provider streams in one ChatStream call
    toolStream,               \* the tool calls the provider streams in that call
    fed,                      \* characters of content delivered so far
    toolFed,                  \* the fragments of arguments delivered so far, per index
    nameFed,                  \* the pieces of the function name delivered so far, per index
    filter,                   \* chatStream's filter and accumulators
    pendingTools,             \* chatStream's pendingTools
    response,                 \* the ChatResponse chatStream returns
    executor,                 \* a test.Executor: its authProvider
    sentRequests,             \* the requests the executor's http.Client has sent
    testResults,              \* what the executor's ExecuteTest calls returned
    provider,                 \* the AI provider: whether its tool calls carry an id
    projectsDir,              \* ~/.octrafic/projects: the project.json of each project id
    tempProjectsDir,          \* /tmp/octrafic-projects: the same, for temporary projects
    saved,                    \* history variable: the project last saved under each id
    providerLog,              \* history variable: each provider call, its upstream answer and what it returned
    stream                    \* one sendChatMessage command: its worker, streamChan and the reader

tuiVars == <<agentState, executionMode, conversationHistory, streamedToolCalls,
          streamedAgentMessage, streamedTextChunk, currentToolCall, pendingToolCall,
          pendingTestGroupToolCall, tests, selectedTestIndex, pendingTests,
          testGroupResults, testGroupCompletedCount, currentTestToolID,
          currentTestToolName, authProvider, executorAuth, lastMessage, cmds,
          calls, escs, httpLog, batchTests, lastOp, confirmationChoice, refused,
          inputTokens, outputTokens, usageLog>>
decoderVars ==
    <<contentStream, toolStream, fed, toolFed, nameFed, filter, pendingTools, response>>
executorVars == <<executor, sentRequests, testResults>>
storageVars == <<projectsDir, tempProjectsDir, saved>>
vars == <<tuiVars, decoderVars, executorVars, provider, storageVars, providerLog, stream>>

-----------------------------------------------------------------------------
\* agent.ToolCall (agents/chat.go:31-36).  id 0 / name "" is the nil pointer.
\* what: the call has its required string arguments ("what" of GenerateTestPlan,
\* "method" and "endpoint" of ExecuteTest); tests: its "tests" argument.
ToolCall(id, name, what, ts) == [id |-> id, name |-> name, what |-> what, tests |-> ts]
NoToolCall == ToolCall(0, "", FALSE, <<>>)

\* agent.FunctionResponseData (agents/chat.go:16-20).  id 0 is the nil pointer.
\* error: the response map has an "error" field; count, results: the test-group fields.
FunctionResponse(id, name, count, results, error) ==
    [id |-> id, name |-> name, count |-> count, results |-> results, error |-> error]
NoFunctionResponse == FunctionResponse(0, "", 0, <<>>, FALSE)

\* agent.ChatMessage (agents/chat.go:8-14)
ChatMessage(role, content, fcalls, fr) ==
    [role |-> role, content |-> content, calls |-> fcalls, fr |-> fr]

\* The test maps a provider can put in an ExecuteTestGroup call: MaxTests tests,
\* all with requires_auth=true (f = 0) or all but the first (f = 1).
\* A Go map held in an interface value: its dynamic type and its entries, each
\* entry a name, a value and the dynamic type of the value.
HeaderMap(type, entries) == [type |-> type, entries |-> entries]
HeaderEntry(k, v, type) == [k |-> k, v |-> v, type |-> type]
\* The "headers" of the n-th test of a tool call: json.Unmarshal decodes the
\* arguments into map[string]interface{} (part_014:883-887), so the object is
\* a map[string]interface{} whose values are strings.
ProviderHeaders(n) ==
    HeaderMap("map[string]interface {}", {HeaderEntry("X-Test", n, "string")})
\* x.(type): the type assertion with ok
TypeAssert(x, type) == x.type = type
TestLists ==
    {[i \in 1..MaxTests |-> [n |-> i, ra |-> (i # f), headers |-> ProviderHeaders(i)]] :
        f \in 0..1}

\* The tool-call lists of a provider response, for the provider call numbered c.
ToolCallId(c, k) == IF provider.ids THEN 2 * (c - 1) + k ELSE 0
ToolCallLists(c) ==
    LET id1 == ToolCallId(c, 1)
        id2 == ToolCallId(c, 2)
    IN  {<<>>,
         <<ToolCall(id1, "get_endpoints_details", FALSE, <<>>)>>,
         <<ToolCall(id1, "GenerateTestPlan", TRUE, <<>>)>>,
         <<ToolCall(id1, "GenerateTestPlan", FALSE, <<>>)>>,
         <<ToolCall(id1, "ExecuteTestGroup", FALSE, <<>>)>>,
         <<ToolCall(id1, "GenerateReport", FALSE, <<>>)>>,
         <<ToolCall(id1, "SearchSpec", FALSE, <<>>)>>,
         <<ToolCall(id1, "GenerateReport", FALSE, <<>>),
           ToolCall(id2, "get_endpoints_details", FALSE, <<>>)>>}
        \cup {<<ToolCall(id1, "ExecuteTestGroup", FALSE, ts)>> : ts \in TestLists}

\* TokenUsage (agents/chat.go:27-28): the usage a ChatStream call reports.
TokenUsage(in, out) == [in |-> in, out |-> out]
NoUsage == TokenUsage(0, 0)
\* The usage the provider reports for the c-th call.
Usage(c) == IF c % 2 = 1 THEN TokenUsage(10, 5) ELSE TokenUsage(7, 3)

\* A number in decimal, one character per digit (the %d of fmt).
DigitChars == <<"0", "1", "2", "3", "4", "5", "6", "7", "8", "9">>
RECURSIVE Digits(_)
Digits(n) ==
    IF n < 10 THEN <<DigitChars[n + 1]>> ELSE Append(Digits(n \div 10), DigitChars[(n % 10) + 1])
DigitValue(ch) == (CHOOSE i \in 1..10 : DigitChars[i] = ch) - 1
IsDigit(ch) == \E i \in 1..10 : DigitChars[i] = ch
RECURSIVE Atoi(_)
Atoi(s) == IF s = <<>> THEN 0 ELSE 10 * Atoi(SubSeq(s, 1, Len(s) - 1)) + DigitValue(s[Len(s)])

\* fmt.Sprintf("%d,%d", response.InputTokens, response.OutputTokens)
\* (handlers.go:92)
Sprintf(usage) == Digits(usage.in) \o <<",">> \o Digits(usage.out)

\* fmt.Sscanf(tokenData, "%d,%d", &input, &output) (update.go:379-380): digits,
\* a comma, digits; anything after the second number is left unread.
Sscanf(tokenData) ==
    LET isNumEnd(k) == k = Len(tokenData) \/ ~IsDigit(tokenData[k + 1])
        commas == {k \in 2..Len(tokenData) :
                      /\ tokenData[k] = ","
                      /\ \A j \in 1..(k - 1) : IsDigit(tokenData[j])}
    IN IF commas = {}
       THEN [ok |-> FALSE, in |-> 0, out |-> 0]
       ELSE LET k == CHOOSE x \in commas : TRUE
                ends == {e \in (k + 1)..Len(tokenData) :
                            /\ \A j \in (k + 1)..e : IsDigit(tokenData[j])
                            /\ isNumEnd(e)}
            IN IF ends = {}
               THEN [ok |-> FALSE, in |-> 0, out |-> 0]
               ELSE [ok |-> TRUE,
                     in |-> Atoi(SubSeq(tokenData, 1, k - 1)),
                     out |-> Atoi(SubSeq(tokenData, k + 1, CHOOSE e \in ends : TRUE))]

\* What localAgent.ChatStream can do: fail, or answer with a text (streamed as a
\* TEXT chunk or not) or with tool calls.
Responses(c) ==
    {[err |-> TRUE, text |-> <<>>, streamed |-> FALSE, calls |-> <<>>, usage |-> NoUsage]}
    \cup {[err |-> FALSE, text |-> <<"text">>, streamed |-> s, calls |-> <<>>,
           usage |-> Usage(c)] : s \in BOOLEAN}
    \cup {[err |-> FALSE, text |-> <<>>, streamed |-> FALSE, calls |-> cs,
           usage |-> Usage(c)] : cs \in ToolCallLists(c)}

Chunk(kind, text, cs) == [kind |-> kind, text |-> text, calls |-> cs]

\* The chunks the worker of sendChatMessage pushes on streamChan
\* (handlers.go:66-95).
StreamChunks(resp) ==
    IF resp.err THEN <<Chunk("ERROR", <<>>, <<>>)>>
    ELSE (IF resp.streamed THEN <<Chunk("TEXT", resp.text, <<>>)>> ELSE <<>>)
         \o <<Chunk("AGENT", resp.text, <<>>)>>
         \o (IF Len(resp.calls) > 0 THEN <<Chunk("TOOLS", <<>>, resp.calls)>> ELSE <<>>)
         \o <<Chunk("TOKENS", Sprintf(resp.usage), <<>>), Chunk("DONE", <<>>, <<>>)>>

\* A command in flight.  stale: it was already in flight at the time of an Esc.
Cmd(type, chunks, tc, ts) ==
    [type |-> type, chunks |-> chunks, tc |-> tc, tests |-> ts, stale |-> FALSE]

\* History variable: the usage of a call that succeeds is reported.
Reported(log, resp) == IF resp.err THEN log ELSE Append(log, resp.usage)
\* sendChatMessage (handlers.go:41-100): the command that opens the stream.
sendChatMessage(resp) == Cmd("streamReasoning", StreamChunks(resp), NoToolCall, <<>>)
\* waitForReasoning (handlers.go:102-110) on the channel of c, rest still to be read
waitForReasoning(c, rest) == [c EXCEPT !.type = "waitForReasoning", !.chunks = rest]
\* executeTool (handlers.go:112-323)
executeTool(tc) == Cmd("executeTool", <<>>, tc, <<>>)
\* runNextTest (handlers.go:27-32)
runNextTest == Cmd("runNextTest", <<>>, NoToolCall, <<>>)
\* Agent.GenerateTestPlan (part_010:133-165) run by the command of
\* update.go:929-950: a single-shot Chat on a message list of its own, the
\* prompt built from "what" and "focus"; the command reads no stream.
TestPlanMessages ==
    <<ChatMessage("user", <<"BuildTestPlanPrompt">>, <<>>, NoFunctionResponse)>>
GenerateTestPlan(tc) == Cmd("GenerateTestPlan", <<>>, tc, <<>>)

Spawn(b, c) == b (+) SetToBag({c})
Drop(b, c) == b (-) SetToBag({c})
InFlight == BagToSet(cmds)
Count(b, types) ==
    BagCardinality([c \in {d \in BagToSet(b) : d.type \in types} |-> b[c]])

\* History variable: every command in flight becomes stale.
MarkStale(b) ==
    LET S == {[c EXCEPT !.stale = TRUE] : c \in BagToSet(b)}
        fresh(s) == [s EXCEPT !.stale = FALSE]
    IN  [s \in S |-> CopiesIn(s, b) + CopiesIn(fresh(s), b)]

Op(name, c) ==
    [op |-> name, stale |-> c.stale, first |-> 0, taken |-> 0, tool |-> "",
     failed |-> FALSE, ra |-> TRUE]
UserOp(name) == Op(name, [stale |-> FALSE])

\* shouldAskForConfirmation (utils.go:86-96)
shouldAskForConfirmation(toolName) ==
    toolName \notin {"GenerateTestPlan", "ExecuteTestGroup", "GenerateReport"}

-----------------------------------------------------------------------------
\* NewTestUIModel (part_014:203-310); the credential comes from the flags or the project.
-----------------------------------------------------------------------------
\* The streaming decoder of the OpenAI-compatible client (unnamed/part_014).
\* Strings are sequences of one-character strings.

MaxPieces == 3       \* pieces a content stream is made of
MaxToolCalls == 2    \* tool calls of one response

OpenTag == <<"<", "t", "h", "i", "n", "k", ">">>
CloseTag == <<"<", "/", "t", "h", "i", "n", "k", ">">>
Whitespace == {" ", "\t", "\n", "\r"}

\* The content streams: up to MaxPieces pieces, each a tag, a letter, a blank
\* or a lone "<".
Pieces == {OpenTag, CloseTag, <<"a">>, <<" ">>, <<"<">>}
RECURSIVE Joined(_)
Joined(ps) == IF ps = <<>> THEN <<>> ELSE Head(ps) \o Joined(Tail(ps))
StreamsOf(n) == {Joined(ps) : ps \in UNION {[1..m -> Pieces] : m \in 0..n}}
ContentStreams == StreamsOf(MaxPieces)

\* The arguments JSON of a tool call: "a" and "b" stand for two members.
ArgStrings == {<<"{", "}">>, <<"{", "a", "}">>, <<"{", "a", "b", "}">>, <<"{", "a">>}
\* The function name of a tool call, in the pieces the provider sends it in:
\* whole, or cut in two.
ToolNames == {<<"ExecuteTest">>, <<"Execute", "Test">>}
ToolStreams ==
    UNION {[1..n -> [name : ToolNames, args : ArgStrings]] : n \in 0..MaxToolCalls}

\* strings.Index: the 0-based offset of the first occurrence, or -1
Index(s, tag) ==
    LET hits == {i \in 0..(Len(s) - Len(tag)) : SubSeq(s, i + 1, i + Len(tag)) = tag}
    IN IF hits = {} THEN -1 ELSE CHOOSE i \in hits : \A j \in hits : i <= j

HasSuffix(s, p) == Len(p) <= Len(s) /\ SubSeq(s, Len(s) - Len(p) + 1, Len(s)) = p

\* strings.TrimLeft(s, " \t\n\r")
RECURSIVE TrimLeft(_)
TrimLeft(s) == IF s # <<>> /\ Head(s) \in Whitespace THEN TrimLeft(Tail(s)) ELSE s

\* The first i of the partial-tag loop whose prefix of the tag ends the
\* buffer, or 0 (Process, lines 573-583 and 611-620).
PartialTag(buffer, tag) ==
    LET is == {i \in 1..(Len(tag) - 1) :
                  i <= Len(buffer) /\ HasSuffix(buffer, SubSeq(tag, 1, i))}
    IN IF is = {} THEN 0 ELSE CHOOSE i \in is : \A j \in is : i <= j

\* thinkTagFilter with the accumulators its callback writes (chatStream,
\* lines 802-810).
NewThinkTagFilter ==
    [insideThink |-> FALSE, trimNext |-> FALSE, buffer |-> <<>>,
     accumulatedContent |-> <<>>, accumulatedReasoning |-> <<>>]

callback(f, chunk, isThought) ==
    IF isThought
    THEN [f EXCEPT !.accumulatedReasoning = @ \o chunk]
    ELSE [f EXCEPT !.accumulatedContent = @ \o chunk]

\* A filter that holds nothing back.
EmitAll(f, tag, isThought) ==
    [callback(f, f.buffer, isThought) EXCEPT !.buffer = <<>>]

\* What Process does once no whole tag is in the buffer: hold back a partial
\* tag at the end and emit the rest.
EmitSafe(f, tag, isThought) ==
    LET i == PartialTag(f.buffer, tag)
        n == Len(f.buffer)
    IN [callback(f, SubSeq(f.buffer, 1, n - i), isThought)
           EXCEPT !.buffer = SubSeq(f.buffer, n - i + 1, n)]

\* The loop of thinkTagFilter.Process
RECURSIVE ProcessLoop(_)
ProcessLoop(f) ==
    IF f.insideThink
    THEN LET idx == Index(f.buffer, CloseTag)
         IN IF idx = -1
            THEN EmitSafe(f, CloseTag, TRUE)
            ELSE ProcessLoop([callback(f, SubSeq(f.buffer, 1, idx), TRUE)
                                 EXCEPT !.buffer = SubSeq(f.buffer, idx + Len(CloseTag) + 1,
                                                          Len(f.buffer)),
                                        !.insideThink = FALSE,
                                        !.trimNext = TRUE])
    ELSE LET trimmed == IF f.trimNext THEN TrimLeft(f.buffer) ELSE f.buffer
             g == [f EXCEPT !.buffer = trimmed,
                            !.trimNext = f.trimNext /\ trimmed = <<>>]
             idx == Index(trimmed, OpenTag)
         IN IF g.trimNext
            THEN g
            ELSE IF idx = -1
                 THEN EmitSafe(g, OpenTag, FALSE)
                 ELSE ProcessLoop([callback(g, SubSeq(trimmed, 1, idx), FALSE)
                                      EXCEPT !.buffer = SubSeq(trimmed, idx + Len(OpenTag) + 1,
                                                               Len(trimmed)),
                                             !.insideThink = TRUE])

\* A filter that trims only within the chunk that closes the tag.
ProcessTrimOnce(f, chunk) ==
    [ProcessLoop([f EXCEPT !.buffer = @ \o chunk]) EXCEPT !.trimNext = FALSE]
Process(f, chunk) == ProcessLoop([f EXCEPT !.buffer = @ \o chunk])

Flush(f) == [callback(f, f.buffer, f.insideThink) EXCEPT !.buffer = <<>>]

\* strings.TrimSpace
RECURSIVE TrimRight(_)
TrimRight(s) ==
    IF s # <<>> /\ s[Len(s)] \in Whitespace THEN TrimRight(SubSeq(s, 1, Len(s) - 1)) ELSE s
TrimSpace(s) == TrimRight(TrimLeft(s))

\* strings.TrimSuffix(s, "\n")
TrimSuffix(s) ==
    IF s # <<>> /\ s[Len(s)] = "\n" THEN SubSeq(s, 1, Len(s) - 1) ELSE s

\* thinkTagRegex, (?s)<think>.*?</think>\s* (part_014:649): the leftmost match
\* in s, as 0-based offsets: from the first <think> to the end of the blanks
\* after the first </think> that follows it; none when either is missing.
FindThinkBlock(s) ==
    LET open == Index(s, OpenTag)
        rest == SubSeq(s, open + Len(OpenTag) + 1, Len(s))
        close == IF open = -1 THEN -1 ELSE Index(rest, CloseTag)
        inner == open + Len(OpenTag) + close
        after == SubSeq(s, inner + Len(CloseTag) + 1, Len(s))
    IN IF close = -1
       THEN [found |-> FALSE, from |-> 0, inner |-> 0, to |-> 0]
       ELSE [found |-> TRUE, from |-> open, inner |-> inner,
             to |-> inner + Len(CloseTag) + (Len(after) - Len(TrimLeft(after)))]

\* The loop of stripThinkTags over the matches of FindAllStringSubmatchIndex:
\* the text between the matches, and the reasoning of each match.
RECURSIVE ThinkBlocks(_)
ThinkBlocks(s) ==
    LET match == FindThinkBlock(s)
    IN IF ~match.found
       THEN [cleanedParts |-> s, reasoningParts |-> <<>>]
       ELSE LET thinkContent == SubSeq(s, match.from + Len(OpenTag) + 1, match.inner)
                more == ThinkBlocks(SubSeq(s, match.to + 1, Len(s)))
            IN [cleanedParts |-> SubSeq(s, 1, match.from) \o more.cleanedParts,
                reasoningParts |->
                    <<TrimSpace(TrimSuffix(thinkContent))>> \o more.reasoningParts]

\* strings.Join(parts, "\n")
RECURSIVE Join(_)
Join(parts) ==
    IF parts = <<>> THEN <<>>
    ELSE IF Len(parts) = 1 THEN Head(parts)
    ELSE Head(parts) \o <<"\n">> \o Join(Tail(parts))

\* stripThinkTags (part_014:651-669)
stripThinkTags(content) ==
    LET blocks == ThinkBlocks(content)
    IN IF blocks.reasoningParts = <<>>
       THEN [cleaned |-> content, reasoning |-> <<>>]
       ELSE [cleaned |-> TrimSpace(blocks.cleanedParts),
             reasoning |-> Join(blocks.reasoningParts)]

\* chat (part_014:924-936) on a message without reasoning_content: what it
\* returns as Message and Reasoning for the content.
chatContent(content) ==
    IF Index(content, OpenTag) # -1
    THEN LET stripped == stripThinkTags(content)
         IN [Message |-> stripped.cleaned, Reasoning |-> stripped.reasoning]
    ELSE [Message |-> content, Reasoning |-> <<>>]

\* json.Unmarshal into a map: the set of members of an object, or nil (the
\* error is dropped, line 885) when the text is not an object.
NilArgs == [ok |-> FALSE, members |-> {}]
Unmarshal(s) ==
    IF /\ Len(s) >= 2
       /\ s[1] = "{"
       /\ s[Len(s)] = "}"
       /\ \A i \in 2..(Len(s) - 1) : s[i] \in {"a", "b"}
    THEN [ok |-> TRUE, members |-> {s[i] : i \in 2..(Len(s) - 1)}]
    ELSE NilArgs

FunctionCallData(id, name, args) == [id |-> id, name |-> name, args |-> args]

\* The orders `for _, pt := range pendingTools` can visit the map in: Go
\* leaves the iteration order of a map unspecified.
MapOrders(m) ==
    {o \in [1..Cardinality(DOMAIN m) -> DOMAIN m] :
        \A i, j \in DOMAIN o : i # j => o[i] # o[j]}

NoResponse == [done |-> FALSE, Message |-> <<>>, Reasoning |-> <<>>, ToolCalls |-> <<>>]

DecoderIdle ==
    /\ contentStream = <<>>
    /\ toolStream = <<>>
    /\ fed = 0
    /\ toolFed = <<>>
    /\ nameFed = <<>>
    /\ filter = NewThinkTagFilter
    /\ pendingTools = <<>>
    /\ response = NoResponse

DecoderUnchanged ==
    UNCHANGED <<contentStream, toolStream, fed, toolFed, nameFed, filter, pendingTools,
                response>>

NoAuthProvider == [type |-> "none"]
\* A provider that gives every tool call an id.
ProviderWithIds == provider = [ids |-> TRUE]

ExecutorIdle ==
    /\ executor = [authProvider |-> NoAuthProvider]
    /\ sentRequests = <<>>
    /\ testResults = <<>>

ExecutorUnchanged == UNCHANGED <<executor, sentRequests, testResults>>
\* storage.Project (storage/project.go:22-33): the fields the listing reads.
\* ID "" is a project.json that does not exist.
Project(id, name, isTemporary) == [ID |-> id, Name |-> name, IsTemporary |-> isTemporary]
NoProject == Project("", "", FALSE)
ProjectIDs == {"p1", "p2"}
ProjectNames == {"", "A", "B"}
Projects == {Project(id, name, t) : id \in ProjectIDs, name \in ProjectNames, t \in BOOLEAN}

\* No project has been saved.
StorageEmpty ==
    /\ projectsDir = [id \in ProjectIDs |-> NoProject]
    /\ tempProjectsDir = [id \in ProjectIDs |-> NoProject]
    /\ saved = [id \in ProjectIDs |-> NoProject]

StorageUnchanged == UNCHANGED storageVars
\* No provider call has been made.
NoProviderCalls == providerLog = <<>>
\* No stream is modelled in detail.
NoStream == [answer |-> [chunks |-> 0, ending |-> "none"], got |-> 0, pushed |-> 0,
             buf |-> <<>>, closed |-> FALSE, reader |-> "none", msg |-> 0, received |-> <<>>]
ClientsUnchanged ==
    /\ DecoderUnchanged /\ ExecutorUnchanged /\ UNCHANGED provider /\ StorageUnchanged
    /\ UNCHANGED <<providerLog, stream>>

-----------------------------------------------------------------------------
NewTestUIModel(auth) ==
    /\ agentState = StateIdle
    /\ executionMode = ModeAsk
    /\ conversationHistory = <<>>
    /\ streamedToolCalls = <<>>
    /\ streamedAgentMessage = <<>>
    /\ streamedTextChunk = <<>>
    /\ currentToolCall = NoToolCall
    /\ pendingToolCall = NoToolCall
    /\ pendingTestGroupToolCall = NoToolCall
    /\ tests = <<>>
    /\ selectedTestIndex = 0
    /\ pendingTests = <<>>
    /\ testGroupResults = <<>>
    /\ testGroupCompletedCount = 0
    /\ currentTestToolID = 0
    /\ currentTestToolName = ""
    /\ authProvider = auth
    /\ executorAuth = authProvider
    /\ lastMessage = "welcome"
    /\ cmds = EmptyBag
    /\ calls = 0
    /\ inputTokens = 0
    /\ outputTokens = 0
    /\ usageLog = <<>>
    /\ escs = 0
    /\ httpLog = <<>>
    /\ batchTests = <<>>
    /\ lastOp = UserOp("init")
    /\ confirmationChoice = 0
    /\ refused = {}

InitTUI == \E auth \in Credentials : NewTestUIModel(auth)
Init == InitTUI /\ DecoderIdle /\ ExecutorIdle /\ ProviderWithIds /\ StorageEmpty /\ NoProviderCalls /\ stream = NoStream

UIUnchanged ==
    UNCHANGED <<executionMode, currentToolCall, pendingToolCall, confirmationChoice, refused>>
StreamUnchanged == UNCHANGED <<streamedToolCalls, streamedAgentMessage, streamedTextChunk>>
TestsUnchanged ==
    UNCHANGED <<pendingTestGroupToolCall, tests, selectedTestIndex, pendingTests,
                testGroupResults, testGroupCompletedCount, currentTestToolID,
                currentTestToolName, batchTests>>
AuthUnchanged == UNCHANGED <<authProvider, executorAuth, httpLog>>
TokensUnchanged == UNCHANGED <<inputTokens, outputTokens>>

-----------------------------------------------------------------------------
\* Keyboard.

\* Update, tea.KeyEnter in StateIdle with a plain input line (update.go:168-225)
UserInput ==
    /\ agentState = StateIdle
    /\ calls < MaxCalls
    /\ \E resp \in Responses(calls + 1) :
         /\ cmds' = Spawn(cmds, sendChatMessage(resp))
         /\ usageLog' = Reported(usageLog, resp)
    /\ conversationHistory' =
           Append(conversationHistory,
                  ChatMessage("user", <<"input">>, <<>>, NoFunctionResponse))
    /\ agentState' = StateProcessing
    /\ lastMessage' = "user"
    /\ calls' = calls + 1
    /\ ClientsUnchanged
    /\ TokensUnchanged
    /\ lastOp' = UserOp("userInput")
    /\ UNCHANGED escs
    /\ UIUnchanged /\ StreamUnchanged /\ TestsUnchanged /\ AuthUnchanged

\* handleSlashCommands, "/clear" (update.go:493-496)
SlashClear ==
    /\ agentState = StateIdle
    /\ Len(conversationHistory) > 0
    /\ conversationHistory' = <<>>
    /\ lastMessage' = "welcome"
    /\ ClientsUnchanged
    /\ TokensUnchanged
    /\ lastOp' = UserOp("clear")
    /\ UNCHANGED <<agentState, cmds, calls, usageLog, escs>>
    /\ UIUnchanged /\ StreamUnchanged /\ TestsUnchanged /\ AuthUnchanged

\* handleAuthCommand, "auth bearer <token>" and "auth clear" (update.go:557-636)
AuthCommand ==
    /\ agentState = StateIdle
    /\ \E cred \in Credentials \ {authProvider} :
         /\ authProvider' = cred
         /\ executorAuth' = cred
    /\ lastMessage' = "auth"
    /\ ClientsUnchanged
    /\ TokensUnchanged
    /\ lastOp' = UserOp("auth")
    /\ UNCHANGED <<agentState, conversationHistory, cmds, calls, usageLog, escs, httpLog>>
    /\ UIUnchanged /\ StreamUnchanged /\ TestsUnchanged

\* handleGlobalKeyboard, tea.KeyEsc outside StateIdle (update.go:447-460)
Esc ==
    /\ agentState # StateIdle
    /\ escs < MaxEsc
    /\ agentState' = StateIdle
    /\ currentToolCall' = NoToolCall
    /\ pendingToolCall' = NoToolCall
    /\ lastMessage' = "Operation cancelled"
    /\ cmds' = MarkStale(cmds)
    /\ escs' = escs + 1
    /\ ClientsUnchanged
    /\ TokensUnchanged
    /\ lastOp' = UserOp("esc")
    /\ UNCHANGED <<executionMode, conversationHistory, calls, usageLog, confirmationChoice, refused>>
    /\ StreamUnchanged /\ TestsUnchanged /\ AuthUnchanged

\* The user actions that change nothing but the last line shown.
PromptFrame(name) ==
    /\ ClientsUnchanged
    /\ TokensUnchanged
    /\ lastOp' = UserOp(name)
    /\ UNCHANGED <<agentState, conversationHistory, calls, usageLog, escs>>
    /\ UIUnchanged /\ StreamUnchanged /\ TestsUnchanged /\ AuthUnchanged

\* handleAuthCommand, "auth bearer" with no token, or an unknown subcommand
\* (update.go:563-577, 629-634): a usage error is shown.
AuthCommandUsage ==
    /\ agentState = StateIdle
    /\ PromptFrame("authUsage")
    /\ lastMessage' = "error"
    /\ UNCHANGED cmds

\* handleGlobalKeyboard, tea.KeyCtrlC in any state (update.go:443-445)
CtrlC ==
    /\ Count(cmds, {"quit"}) < MaxQuit
    /\ PromptFrame("ctrlC")
    /\ cmds' = Spawn(cmds, Cmd("quit", <<>>, NoToolCall, <<>>))
    /\ UNCHANGED lastMessage

\* handleSlashCommands, "/exit" (update.go:516-517)
SlashExit ==
    /\ agentState = StateIdle
    /\ Count(cmds, {"quit"}) < MaxQuit
    /\ PromptFrame("exit")
    /\ cmds' = Spawn(cmds, Cmd("quit", <<>>, NoToolCall, <<>>))
    /\ UNCHANGED lastMessage

\* tea.Quit is a command; the runtime ends the program when its tea.QuitMsg
\* arrives (update.go:444, 517).
QuitMsg(c) ==
    /\ c.type = "quit"
    /\ PromptFrame("QuitMsg")
    /\ cmds' = Drop(cmds, c)
    /\ UNCHANGED lastMessage

\* The program has ended: Update is not called again.
Terminated == lastOp.op = "QuitMsg"

-----------------------------------------------------------------------------
\* The stream of a provider call.

\* Update, streamReasoningMsg (update.go:43-47)
StreamReasoning(c) ==
    /\ c.type = "streamReasoning"
    /\ cmds' = Spawn(Drop(cmds, c), waitForReasoning(c, c.chunks))
    /\ ClientsUnchanged
    /\ TokensUnchanged
    /\ lastOp' = Op("streamReasoning", c)
    /\ UNCHANGED <<agentState, conversationHistory, lastMessage, calls, usageLog, escs>>
    /\ UIUnchanged /\ StreamUnchanged /\ TestsUnchanged /\ AuthUnchanged

ChunkFrame(c, kind) ==
    /\ c.type = "waitForReasoning"
    /\ Len(c.chunks) > 0
    /\ Head(c.chunks).kind = kind
    /\ ClientsUnchanged
    /\ lastOp' = Op(kind, c)
    /\ UNCHANGED <<calls, usageLog, escs>>
    /\ UIUnchanged /\ TestsUnchanged /\ AuthUnchanged

\* An orchestrator that answers a provider error with another provider call.
ChunkErrorRetry(c) ==
    /\ ChunkFrame(c, "ERROR")
    /\ TokensUnchanged
    /\ calls < MaxCalls
    /\ lastMessage' = "error"
    /\ agentState' = StateProcessing
    /\ \E resp \in Responses(calls + 1) :
         cmds' = Spawn(Drop(cmds, c), sendChatMessage(resp))
    /\ UNCHANGED conversationHistory
    /\ StreamUnchanged

\* handleStreamingMsg, "\x00ERROR:" (update.go:347-353)
ChunkError(c) ==
    /\ ChunkFrame(c, "ERROR")
    /\ TokensUnchanged
    /\ lastMessage' = "error"
    /\ agentState' = StateIdle
    /\ cmds' = Drop(cmds, c)
    /\ UNCHANGED conversationHistory
    /\ StreamUnchanged

\* handleStreamingMsg, "\x00AGENT:" (update.go:354-376)
ChunkAgent(c) ==
    /\ ChunkFrame(c, "AGENT")
    /\ TokensUnchanged
    /\ LET agentMsg == Head(c.chunks).text
           displayedContent == streamedTextChunk # <<>>
       IN  /\ streamedTextChunk' = <<>>
           /\ streamedAgentMessage' =
                  IF agentMsg # <<>> /\ ~displayedContent THEN agentMsg
                  ELSE streamedAgentMessage
           /\ lastMessage' =
                  IF displayedContent \/ agentMsg # <<>> THEN "text" ELSE lastMessage
    /\ cmds' = Spawn(Drop(cmds, c), waitForReasoning(c, Tail(c.chunks)))
    /\ UNCHANGED <<agentState, conversationHistory, streamedToolCalls>>

\* A handler that keeps the usage of the latest call only.
ChunkTokensOverwrite(c) ==
    /\ ChunkFrame(c, "TOKENS")
    /\ LET tokens == Sscanf(Head(c.chunks).text)
       IN  /\ inputTokens' = IF tokens.ok THEN tokens.in ELSE inputTokens
           /\ outputTokens' = IF tokens.ok THEN tokens.out ELSE outputTokens
    /\ cmds' = Spawn(Drop(cmds, c), waitForReasoning(c, Tail(c.chunks)))
    /\ UNCHANGED <<agentState, conversationHistory, lastMessage>>
    /\ StreamUnchanged

\* handleStreamingMsg, "\x00TOKENS:" (update.go:377-385)
ChunkTokens(c) ==
    /\ ChunkFrame(c, "TOKENS")
    /\ LET tokens == Sscanf(Head(c.chunks).text)
       IN  /\ inputTokens' = IF tokens.ok THEN inputTokens + tokens.in ELSE inputTokens
           /\ outputTokens' = IF tokens.ok THEN outputTokens + tokens.out ELSE outputTokens
    /\ cmds' = Spawn(Drop(cmds, c), waitForReasoning(c, Tail(c.chunks)))
    /\ UNCHANGED <<agentState, conversationHistory, lastMessage>>
    /\ StreamUnchanged

\* handleStreamingMsg, "\x00DONE:" (update.go:386-418)
ChunkDone(c) ==
    /\ ChunkFrame(c, "DONE")
    /\ TokensUnchanged
    /\ lastMessage' = IF streamedTextChunk # <<>> THEN "text" ELSE lastMessage
    /\ streamedTextChunk' = <<>>
    /\ conversationHistory' =
           Append(conversationHistory,
                  ChatMessage("assistant", streamedAgentMessage, streamedToolCalls,
                              NoFunctionResponse))
    /\ streamedAgentMessage' = <<>>
    /\ IF Len(streamedToolCalls) > 0
       THEN /\ cmds' = Spawn(Drop(cmds, c), Cmd("processToolCalls", <<>>, NoToolCall, <<>>))
            /\ UNCHANGED agentState
       ELSE /\ cmds' = Drop(cmds, c)
            /\ agentState' =
                   IF agentState = StateShowingTestPlan THEN agentState ELSE StateIdle
    /\ UNCHANGED streamedToolCalls

\* handleStreamingMsg, "\x00TOOLS:" (update.go:419-425)
ChunkTools(c) ==
    /\ ChunkFrame(c, "TOOLS")
    /\ TokensUnchanged
    /\ streamedToolCalls' = Head(c.chunks).calls
    /\ cmds' = Spawn(Drop(cmds, c), waitForReasoning(c, Tail(c.chunks)))
    /\ UNCHANGED <<agentState, conversationHistory, lastMessage,
                   streamedAgentMessage, streamedTextChunk>>

\* handleStreamingMsg, "\x00TEXT:" (update.go:430-434)
ChunkText(c) ==
    /\ ChunkFrame(c, "TEXT")
    /\ TokensUnchanged
    /\ streamedTextChunk' = streamedTextChunk \o Head(c.chunks).text
    /\ cmds' = Spawn(Drop(cmds, c), waitForReasoning(c, Tail(c.chunks)))
    /\ UNCHANGED <<agentState, conversationHistory, lastMessage,
                   streamedToolCalls, streamedAgentMessage>>

-----------------------------------------------------------------------------
\* Tool calls.

FirstNamed(cs, name) ==
    LET I == {i \in 1..Len(cs) : cs[i].name = name}
    IN  IF I = {} THEN NoToolCall ELSE cs[CHOOSE i \in I : \A j \in I : i <= j]

\* The tool call handleProcessToolCalls starts: its four loops over
\* m.streamedToolCalls, one per tool name (update.go:883, 908, 954, 967).
SelectToolCall(cs) ==
    IF FirstNamed(cs, "get_endpoints_details") # NoToolCall
        THEN FirstNamed(cs, "get_endpoints_details")
    ELSE IF FirstNamed(cs, "GenerateTestPlan") # NoToolCall
        THEN FirstNamed(cs, "GenerateTestPlan")
    ELSE IF FirstNamed(cs, "ExecuteTestGroup") # NoToolCall
        THEN FirstNamed(cs, "ExecuteTestGroup")
    ELSE FirstNamed(cs, "GenerateReport")

\* handleProcessToolCalls (update.go:881-987)
handleProcessToolCalls(c) ==
    /\ c.type = "processToolCalls"
    /\ LET tc == SelectToolCall(streamedToolCalls)
           first == IF Len(streamedToolCalls) > 0 THEN Head(streamedToolCalls).id ELSE 0
           op(started) ==
               [Op("processToolCalls", c) EXCEPT
                    !.first = first,
                    !.taken = IF started THEN tc.id ELSE 0,
                    !.tool = IF started THEN tc.name ELSE ""]
       IN  IF tc = NoToolCall
           THEN /\ agentState' = StateIdle
                /\ cmds' = Drop(cmds, c)
                /\ ClientsUnchanged
                /\ TokensUnchanged
                /\ lastOp' = op(FALSE)
                /\ UNCHANGED <<streamedToolCalls, currentTestToolID, currentTestToolName,
                               lastMessage>>
           ELSE IF tc.name = "GenerateTestPlan" /\ ~tc.what
           THEN /\ streamedToolCalls' = <<>>
                /\ lastMessage' = "warning"
                /\ cmds' = Drop(cmds, c)
                /\ ClientsUnchanged
                /\ TokensUnchanged
                /\ lastOp' = op(FALSE)
                /\ UNCHANGED <<agentState, currentTestToolID, currentTestToolName>>
           ELSE /\ streamedToolCalls' = <<>>
                /\ currentTestToolID' = tc.id
                /\ currentTestToolName' = tc.name
                /\ agentState' =
                       IF tc.name = "get_endpoints_details" THEN StateThinking
                       ELSE IF tc.name = "ExecuteTestGroup" THEN StateProcessing
                       ELSE StateUsingTool
                /\ lastMessage' = IF tc.name = "GenerateTestPlan" THEN lastMessage ELSE "tool"
                /\ cmds' = Spawn(Drop(cmds, c),
                                 IF tc.name = "GenerateTestPlan"
                                 THEN GenerateTestPlan(tc)
                                 ELSE executeTool(tc))
                /\ ClientsUnchanged
                /\ TokensUnchanged
                /\ lastOp' = op(TRUE)
    /\ UNCHANGED <<conversationHistory, streamedAgentMessage, streamedTextChunk,
                   pendingTestGroupToolCall, tests, selectedTestIndex, pendingTests,
                   testGroupResults, testGroupCompletedCount, batchTests, calls, usageLog, escs>>
    /\ UIUnchanged /\ AuthUnchanged

\* The messages executeTool can return for a tool call (handlers.go:116-321).
ExecuteToolOutcomes(tc) ==
    IF tc.name \in {"get_endpoints_details", "GenerateReport"}
        THEN {"result", "error"}
    ELSE IF tc.name = "ExecuteTest"
        THEN IF tc.what THEN {"result", "error"} ELSE {"error"}
    ELSE IF tc.name = "ExecuteTestGroup"
        THEN IF Len(tc.tests) = 0 THEN {"error"} ELSE {"showTestSelection"}
    ELSE {"error"}

\* Where a request carries the credential after AuthProvider.Apply
\* (bearer.go:20-26, unnamed/part_004:171-188).
AppliedTo(cred) ==
    [header |-> IF cred = "bearer" THEN <<CredentialValue>> ELSE <<>>,
     url |-> <<"endpoint">> \o (IF cred = APIKeyQuery THEN <<CredentialValue>> ELSE <<>>)]

\* err.Error() of the toolResultMsg: for a test that was sent, the error of
\* http.Client.Do wrapped by Executor.ExecuteTest (unnamed/part_016:82-89), a
\* url.Error whose text quotes the URL of the request.
RequestError(cred) == <<"request failed">> \o AppliedTo(cred).url
ErrorText(tc, cred) ==
    IF tc.name = "ExecuteTest" /\ tc.what THEN RequestError(cred) ELSE <<"tool failed">>

ToolFrame(c, outcome, failed) ==
    /\ c.type = "executeTool"
    /\ outcome \in ExecuteToolOutcomes(c.tc)
    /\ ClientsUnchanged
    /\ TokensUnchanged
    /\ lastOp' = [Op("toolResult", c) EXCEPT !.taken = c.tc.id, !.tool = c.tc.name,
                                             !.failed = failed]
    /\ httpLog' =
           IF c.tc.name = "ExecuteTest" /\ c.tc.what
           THEN Append(httpLog, [id |-> c.tc.id, n |-> 0, ra |-> TRUE,
                                 cred |-> executorAuth, err |-> failed, headers |-> {}])
           ELSE httpLog
    /\ UNCHANGED <<escs, authProvider, executorAuth>>
    /\ UIUnchanged /\ StreamUnchanged

\* Update, toolResultMsg with err (update.go:99-110)
ToolResultError(c) ==
    /\ ToolFrame(c, "error", TRUE)
    /\ calls < MaxCalls
    /\ lastMessage' = "error"
    /\ conversationHistory' =
           Append(conversationHistory,
                  ChatMessage("user", <<"Tool error">> \o ErrorText(c.tc, executorAuth),
                              <<>>, NoFunctionResponse))
    /\ agentState' = StateThinking
    /\ \E resp \in Responses(calls + 1) :
         /\ cmds' = Spawn(Drop(cmds, c), sendChatMessage(resp))
         /\ usageLog' = Reported(usageLog, resp)
    /\ calls' = calls + 1
    /\ TestsUnchanged

\* handleToolResult (handlers.go:325-512): the message it appends, if any.
handleToolResult(toolName, toolID) ==
    IF toolName \in {"ExecuteTest", "ExecuteTestGroup", "get_endpoints_details",
                     "GenerateReport", "GenerateTestPlan"} /\ toolID # 0
    THEN <<ChatMessage("user", <<>>, <<>>,
                       FunctionResponse(toolID, toolName, 0, <<>>, FALSE))>>
    ELSE <<>>

\* Update, toolResultMsg without err (update.go:111-118)
ToolResultOk(c) ==
    /\ ToolFrame(c, "result", FALSE)
    /\ LET appended == handleToolResult(c.tc.name, c.tc.id)
       IN  IF appended # <<>>
           THEN /\ calls < MaxCalls
                /\ conversationHistory' = conversationHistory \o appended
                /\ agentState' = StateThinking
                /\ \E resp \in Responses(calls + 1) :
                     /\ cmds' = Spawn(Drop(cmds, c), sendChatMessage(resp))
                     /\ usageLog' = Reported(usageLog, resp)
                /\ calls' = calls + 1
           ELSE /\ agentState' = StateIdle
                /\ cmds' = Drop(cmds, c)
                /\ UNCHANGED <<conversationHistory, calls, usageLog>>
    /\ lastMessage' = IF c.tc.name = "GenerateReport" THEN "report" ELSE lastMessage
    /\ TestsUnchanged

\* handleShowTestSelection (update.go:990-1031)
handleShowTestSelection(c) ==
    /\ ToolFrame(c, "showTestSelection", FALSE)
    /\ tests' = [i \in 1..Len(c.tc.tests) |->
                    [n |-> c.tc.tests[i].n, ra |-> c.tc.tests[i].ra,
                     headers |-> IF TypeAssert(c.tc.tests[i].headers, "map[string]string")
                                 THEN c.tc.tests[i].headers.entries
                                 ELSE {},
                     status |-> "pending", selected |-> TRUE]]
    /\ pendingTestGroupToolCall' = c.tc
    /\ selectedTestIndex' = 0
    /\ agentState' = StateShowingTestPlan
    /\ cmds' = Drop(cmds, c)
    /\ UNCHANGED <<conversationHistory, lastMessage, calls, usageLog, pendingTests,
                   testGroupResults, testGroupCompletedCount, currentTestToolID,
                   currentTestToolName, batchTests>>

\* A handler that ends the program when the test plan cannot be generated.
BackendErrorQuit(c) ==
    /\ c.type = "GenerateTestPlan"
    /\ lastMessage' = "error"
    /\ agentState' = StateIdle
    /\ cmds' = Spawn(Drop(cmds, c), Cmd("quit", <<>>, NoToolCall, <<>>))
    /\ ClientsUnchanged
    /\ TokensUnchanged
    /\ lastOp' = [Op("backendError", c) EXCEPT !.taken = c.tc.id, !.tool = c.tc.name,
                                               !.failed = TRUE]
    /\ UNCHANGED <<conversationHistory, calls, usageLog, escs>>
    /\ UIUnchanged /\ StreamUnchanged /\ TestsUnchanged /\ AuthUnchanged

\* Update, backendErrorMsg (update.go:290-294): Agent.GenerateTestPlan failed
\* (update.go:934-943)
BackendError(c) ==
    /\ c.type = "GenerateTestPlan"
    /\ lastMessage' = "error"
    /\ agentState' = StateIdle
    /\ cmds' = Drop(cmds, c)
    /\ ClientsUnchanged
    /\ TokensUnchanged
    /\ lastOp' = [Op("backendError", c) EXCEPT !.taken = c.tc.id, !.tool = c.tc.name,
                                               !.failed = TRUE]
    /\ UNCHANGED <<conversationHistory, calls, usageLog, escs>>
    /\ UIUnchanged /\ StreamUnchanged /\ TestsUnchanged /\ AuthUnchanged

\* handleGenerateTestPlanResult (update_tests.go:14-83), the plan holding k tests
handleGenerateTestPlanResult(c) ==
    /\ c.type = "GenerateTestPlan"
    /\ \E k \in 0..1 :
         /\ lastMessage' = IF k > 0 THEN "tool" ELSE "warning"
         /\ IF currentTestToolID # 0
            THEN /\ calls < MaxCalls
                 /\ agentState' = StateProcessing
                 /\ conversationHistory' =
                        Append(conversationHistory,
                               ChatMessage("user", <<>>, <<>>,
                                           FunctionResponse(currentTestToolID,
                                                            "GenerateTestPlan", k, <<>>, FALSE)))
                 /\ currentTestToolID' = 0
                 /\ \E resp \in Responses(calls + 1) :
                      /\ cmds' = Spawn(Drop(cmds, c), sendChatMessage(resp))
                      /\ usageLog' = Reported(usageLog, resp)
                 /\ calls' = calls + 1
            ELSE /\ cmds' = Drop(cmds, c)
                 /\ UNCHANGED <<agentState, conversationHistory, currentTestToolID, calls, usageLog>>
    /\ ClientsUnchanged
    /\ TokensUnchanged
    /\ lastOp' = [Op("generateTestPlanResult", c) EXCEPT !.taken = c.tc.id,
                                                          !.tool = c.tc.name]
    /\ UNCHANGED <<pendingTestGroupToolCall, tests, selectedTestIndex, pendingTests,
                   testGroupResults, testGroupCompletedCount, currentTestToolName,
                   batchTests, escs>>
    /\ UIUnchanged /\ StreamUnchanged /\ AuthUnchanged

-----------------------------------------------------------------------------
\* The test plan and the test group.

PlanFrame(name) ==
    /\ agentState = StateShowingTestPlan
    /\ ClientsUnchanged
    /\ TokensUnchanged
    /\ lastOp' = UserOp(name)
    /\ UNCHANGED <<conversationHistory, calls, usageLog, escs, pendingTests, testGroupResults,
                   testGroupCompletedCount, currentTestToolID, currentTestToolName,
                   batchTests>>
    /\ UIUnchanged /\ StreamUnchanged /\ AuthUnchanged

\* handleTestPlanState, tea.KeyDown (update.go:646-650)
TestPlanDown ==
    /\ PlanFrame("testPlanDown")
    /\ selectedTestIndex < Len(tests) - 1
    /\ selectedTestIndex' = selectedTestIndex + 1
    /\ UNCHANGED <<agentState, tests, pendingTestGroupToolCall, lastMessage, cmds>>

\* handleTestPlanState, the space key (update.go:651-655)
TestPlanSpace ==
    /\ PlanFrame("testPlanSpace")
    /\ tests' = [tests EXCEPT ![selectedTestIndex + 1].selected = ~@]
    /\ UNCHANGED <<agentState, selectedTestIndex, pendingTestGroupToolCall, lastMessage, cmds>>

\* handleTestPlanState, tea.KeyEnter (update.go:656-716)
TestPlanEnter ==
    /\ PlanFrame("testPlanEnter")
    /\ LET selectedTests ==
               SelectSeq(tests, LAMBDA t : t.selected /\ t.status = "pending")
           testMaps == [i \in 1..Len(selectedTests) |->
                           [n |-> selectedTests[i].n, ra |-> selectedTests[i].ra,
                            headers |-> HeaderMap("map[string]string",
                                                  selectedTests[i].headers)]]
           toolID == pendingTestGroupToolCall.id
           toolName == IF pendingTestGroupToolCall # NoToolCall
                       THEN pendingTestGroupToolCall.name ELSE "ExecuteTestGroup"
       IN  IF Len(selectedTests) = 0
           THEN /\ lastMessage' = "No tests selected"
                /\ agentState' = StateIdle
                /\ UNCHANGED cmds
           ELSE /\ agentState' = StateUsingTool
                /\ cmds' = Spawn(cmds, Cmd("startTestGroup", <<>>,
                                           ToolCall(toolID, toolName, FALSE, <<>>), testMaps))
                /\ UNCHANGED lastMessage
    /\ pendingTestGroupToolCall' = NoToolCall
    /\ UNCHANGED <<tests, selectedTestIndex>>

\* handleStartTestGroup (update_tests.go:86-108)
handleStartTestGroup(c) ==
    /\ c.type = "startTestGroup"
    /\ pendingTests' = c.tests
    /\ currentTestToolName' = c.tc.name
    /\ currentTestToolID' = IF c.tc.id # 0 THEN c.tc.id ELSE currentTestToolID
    /\ testGroupCompletedCount' = 0
    /\ testGroupResults' = <<>>
    /\ agentState' = StateRunningTests
    /\ lastMessage' = "label"
    /\ cmds' = Spawn(Drop(cmds, c), runNextTest)
    /\ batchTests' = Append(batchTests, [id |-> currentTestToolID', queue |-> c.tests])
    /\ ClientsUnchanged
    /\ TokensUnchanged
    /\ lastOp' = Op("startTestGroup", c)
    /\ UNCHANGED <<conversationHistory, pendingTestGroupToolCall, tests,
                   selectedTestIndex, calls, usageLog, escs>>
    /\ UIUnchanged /\ StreamUnchanged /\ AuthUnchanged

\* handleRunNextTest, the queue is empty (update_tests.go:113-160)
RunNextTestDone(c) ==
    /\ c.type = "runNextTest"
    /\ Len(pendingTests) = 0
    /\ calls < MaxCalls
    /\ LET hadToolID == currentTestToolID # 0
       IN  conversationHistory' =
               IF hadToolID
               THEN Append(conversationHistory,
                           ChatMessage("user", <<>>, <<>>,
                                       FunctionResponse(currentTestToolID,
                                                        currentTestToolName,
                                                        testGroupCompletedCount,
                                                        testGroupResults, FALSE)))
               ELSE conversationHistory
    /\ pendingTests' = <<>>
    /\ testGroupCompletedCount' = 0
    /\ testGroupResults' = <<>>
    /\ currentTestToolName' = ""
    /\ currentTestToolID' = 0
    /\ agentState' = StateProcessing
    /\ \E resp \in Responses(calls + 1) :
         /\ cmds' = Spawn(Drop(cmds, c), sendChatMessage(resp))
         /\ usageLog' = Reported(usageLog, resp)
    /\ calls' = calls + 1
    /\ ClientsUnchanged
    /\ TokensUnchanged
    /\ lastOp' = Op("runNextTestDone", c)
    /\ UNCHANGED <<pendingTestGroupToolCall, tests, selectedTestIndex, lastMessage,
                   batchTests, escs>>
    /\ UIUnchanged /\ StreamUnchanged /\ AuthUnchanged

\* The executor keeps the swapped provider when the request failed.
RestoreAuthUnlessError(requiresAuth, originalAuth, current, err) ==
    IF ~requiresAuth /\ ~err THEN originalAuth ELSE current

\* An executor that is never switched to the no-op provider.
AuthForTestWithoutSwap(requiresAuth, current) == current

\* The provider installed for one test (update_tests.go:189-193)
AuthForTest(requiresAuth, current) ==
    IF ~requiresAuth THEN NoAuth ELSE current

\* The provider installed after the test (update_tests.go:198-201)
RestoreAuth(requiresAuth, originalAuth, current, err) ==
    IF ~requiresAuth THEN originalAuth ELSE current

\* handleRunNextTest, one test of the queue (update_tests.go:162-252);
\* err: Executor.ExecuteTest returned an error (part_016:42-108)
RunNextTestHTTP(c) ==
    /\ c.type = "runNextTest"
    /\ Len(pendingTests) > 0
    /\ \E err \in BOOLEAN :
         LET testMap == Head(pendingTests)
             requiresAuth == testMap.ra
             headers == IF TypeAssert(testMap.headers, "map[string]interface {}")
                        THEN {h \in testMap.headers.entries : h.type = "string"}
                        ELSE {}
             originalAuth == authProvider
             applied == AuthForTest(requiresAuth, executorAuth)
         IN  /\ pendingTests' = Tail(pendingTests)
             /\ httpLog' = Append(httpLog, [id |-> currentTestToolID, n |-> testMap.n,
                                            ra |-> requiresAuth, cred |-> applied,
                                            err |-> err, headers |-> headers])
             /\ executorAuth' = RestoreAuth(requiresAuth, originalAuth, applied, err)
             /\ testGroupResults' =
                    Append(testGroupResults,
                           [n |-> testMap.n, ra |-> requiresAuth, error |-> err,
                            text |-> IF err THEN RequestError(applied) ELSE <<>>])
             /\ testGroupCompletedCount' = testGroupCompletedCount + 1
             /\ ClientsUnchanged
             /\ TokensUnchanged
             /\ lastOp' = [Op("runNextTest", c) EXCEPT !.ra = requiresAuth, !.failed = err]
    /\ lastMessage' = "test"
    /\ cmds' = Spawn(Drop(cmds, c), runNextTest)
    /\ UNCHANGED <<agentState, conversationHistory, authProvider, pendingTestGroupToolCall,
                   tests, selectedTestIndex, currentTestToolID, currentTestToolName,
                   batchTests, calls, usageLog, escs>>
    /\ UIUnchanged /\ StreamUnchanged

-----------------------------------------------------------------------------
\* The confirmation dialog.  StateAskingConfirmation is entered only by the
\* agentResponseMsg case of Update; no code of the repository sends that
\* message, so it is a message the Bubble Tea runtime hands to Update.

\* What an agentResponseMsg can carry for the provider call numbered c.
AgentResponses(c) ==
    {[err |-> TRUE, text |-> <<>>, calls |-> <<>>],
     [err |-> FALSE, text |-> <<"text">>, calls |-> <<>>]}
    \cup {[err |-> FALSE, text |-> <<>>,
           calls |-> <<ToolCall(ToolCallId(c, 1), name, TRUE, <<>>)>>] :
              name \in {"ExecuteTest", "get_endpoints_details", "GenerateReport"}}

\* Update, agentResponseMsg (update.go:56-96); the message answers a provider
\* call, and is delivered when no other command is in flight.
AgentResponse ==
    /\ calls < MaxCalls
    /\ cmds = EmptyBag
    /\ calls' = calls + 1
    /\ ClientsUnchanged
    /\ UNCHANGED usageLog
    /\ TokensUnchanged
    /\ lastOp' = UserOp("agentResponse")
    /\ \E resp \in AgentResponses(calls + 1) :
         IF resp.err
         THEN /\ agentState' = StateIdle
              /\ lastMessage' = "error"
              /\ UNCHANGED <<conversationHistory, currentToolCall, pendingToolCall,
                             confirmationChoice, cmds>>
         ELSE /\ lastMessage' = "text"
              /\ conversationHistory' =
                     Append(conversationHistory,
                            ChatMessage("assistant", resp.text, resp.calls,
                                        NoFunctionResponse))
              /\ IF Len(resp.calls) = 0
                 THEN /\ agentState' = StateIdle
                      /\ UNCHANGED <<currentToolCall, pendingToolCall,
                                     confirmationChoice, cmds>>
                 ELSE LET toolCall == resp.calls[1]
                          needsConfirmation == shouldAskForConfirmation(toolCall.name)
                      IN  IF executionMode = ModeAutoExecute \/ ~needsConfirmation
                          THEN /\ currentToolCall' = toolCall
                               /\ agentState' = StateUsingTool
                               /\ cmds' = Spawn(cmds, executeTool(toolCall))
                               /\ UNCHANGED <<pendingToolCall, confirmationChoice>>
                          ELSE /\ pendingToolCall' = toolCall
                               /\ confirmationChoice' = 0
                               /\ agentState' = StateAskingConfirmation
                               /\ UNCHANGED <<currentToolCall, cmds>>
    /\ UNCHANGED <<executionMode, refused, escs>>
    /\ StreamUnchanged /\ TestsUnchanged /\ AuthUnchanged

ConfirmFrame(name) ==
    /\ agentState = StateAskingConfirmation
    /\ ClientsUnchanged
    /\ TokensUnchanged
    /\ lastOp' = UserOp(name)
    /\ UNCHANGED <<executionMode, conversationHistory, calls, usageLog, escs,
                   pendingTestGroupToolCall, selectedTestIndex, pendingTests,
                   testGroupResults, testGroupCompletedCount, currentTestToolID,
                   currentTestToolName, batchTests>>
    /\ StreamUnchanged /\ AuthUnchanged

\* handleConfirmationState, tea.KeyUp (update.go:729-734)
ConfirmUp ==
    /\ ConfirmFrame("confirmUp")
    /\ confirmationChoice' = IF confirmationChoice - 1 < 0 THEN 2 ELSE confirmationChoice - 1
    /\ UNCHANGED <<agentState, currentToolCall, pendingToolCall, tests, lastMessage,
                   cmds, refused>>

\* handleConfirmationState, tea.KeyDown (update.go:735-740)
ConfirmDown ==
    /\ ConfirmFrame("confirmDown")
    /\ confirmationChoice' = IF confirmationChoice + 1 > 2 THEN 0 ELSE confirmationChoice + 1
    /\ UNCHANGED <<agentState, currentToolCall, pendingToolCall, tests, lastMessage,
                   cmds, refused>>

\* handleConfirmationState, tea.KeyEnter on "approve" (update.go:743-749)
ConfirmApprove ==
    /\ ConfirmFrame("confirmApprove")
    /\ confirmationChoice = 0
    /\ currentToolCall' = pendingToolCall
    /\ pendingToolCall' = NoToolCall
    /\ agentState' = StateUsingTool
    /\ cmds' = Spawn(cmds, executeTool(pendingToolCall))
    /\ UNCHANGED <<confirmationChoice, tests, lastMessage, refused>>

\* A deny that leaves a result message in the history.
ConfirmDenyWithResult ==
    /\ agentState = StateAskingConfirmation
    /\ confirmationChoice = 1
    /\ ClientsUnchanged
    /\ TokensUnchanged
    /\ lastOp' = UserOp("confirmDeny")
    /\ pendingToolCall' = NoToolCall
    /\ agentState' = StateIdle
    /\ lastMessage' = "Tool execution cancelled"
    /\ refused' = refused \cup ({pendingToolCall.id} \ {0})
    /\ conversationHistory' =
           Append(conversationHistory,
                  ChatMessage("user", <<"Tool execution cancelled">>, <<>>,
                              NoFunctionResponse))
    /\ UNCHANGED <<executionMode, calls, usageLog, escs, pendingTestGroupToolCall,
                   selectedTestIndex, pendingTests, testGroupResults,
                   testGroupCompletedCount, currentTestToolID, currentTestToolName,
                   batchTests, confirmationChoice, currentToolCall, tests, cmds>>
    /\ StreamUnchanged /\ AuthUnchanged

\* handleConfirmationState, tea.KeyEnter on "deny" (update.go:750-759)
ConfirmDeny ==
    /\ ConfirmFrame("confirmDeny")
    /\ confirmationChoice = 1
    /\ pendingToolCall' = NoToolCall
    /\ agentState' = StateIdle
    /\ lastMessage' = "Tool execution cancelled"
    /\ refused' = refused \cup ({pendingToolCall.id} \ {0})
    /\ UNCHANGED <<confirmationChoice, currentToolCall, tests, cmds>>

\* The tests of m.tests that are still pending.
PendingIndexes(ts) == {i \in 1..Len(ts) : ts[i].status = "pending"}

\* handleConfirmationState, tea.KeyEnter on "skip" (update.go:760-803)
ConfirmSkip ==
    /\ ConfirmFrame("confirmSkip")
    /\ confirmationChoice = 2
    /\ refused' = refused \cup ({pendingToolCall.id} \ {0})
    /\ LET isExecuteTest == pendingToolCall.name \in {"ExecuteTest", "ExecuteTestGroup"}
           P == PendingIndexes(tests)
           skipped == IF P = {} THEN tests
                      ELSE [tests EXCEPT ![CHOOSE i \in P : \A j \in P : i <= j].status =
                                             "skipped"]
       IN  IF isExecuteTest
           THEN /\ tests' = skipped
                /\ lastMessage' = IF P = {} THEN lastMessage ELSE "Skipped"
                /\ IF PendingIndexes(skipped) # {}
                   THEN /\ pendingToolCall' = ToolCall(0, "ExecuteTest", FALSE, <<>>)
                        /\ confirmationChoice' = 0
                        /\ agentState' = StateAskingConfirmation
                   ELSE /\ pendingToolCall' = NoToolCall
                        /\ agentState' = StateIdle
                        /\ UNCHANGED confirmationChoice
           ELSE /\ pendingToolCall' = NoToolCall
                /\ lastMessage' = "Tool execution skipped"
                /\ agentState' = StateIdle
                /\ UNCHANGED <<tests, confirmationChoice>>
    /\ UNCHANGED <<currentToolCall, cmds>>

-----------------------------------------------------------------------------
\* TestUIModel.Update (update.go:27-324): one message or key at a time.
\* chatStream, lines 854-857: a frame whose delta carries k more characters of
\* content (a frame with empty content is skipped).
ContentFrame ==
    /\ ~response.done
    /\ \E k \in 1..(Len(contentStream) - fed) :
          /\ filter' = Process(filter, SubSeq(contentStream, fed + 1, fed + k))
          /\ fed' = fed + k
    /\ UNCHANGED <<contentStream, toolStream, toolFed, nameFed, pendingTools, response>>
    /\ UNCHANGED tuiVars
    /\ UNCHANGED <<executorVars, provider, storageVars, providerLog, stream>>

\* An accumulator that keeps only the latest fragment of an index.
AccumulateLatest(pt, idx, name, frag) ==
    [i \in DOMAIN pt \cup {idx} |->
        IF i = idx THEN [id |-> idx, name |-> name, args |-> frag] ELSE pt[i]]

\* The entry of pendingTools after a frame for index idx with fragment frag
\* (lines 859-872): id and name come from the first frame of the index.
Accumulate(pt, idx, name, frag) ==
    IF idx \in DOMAIN pt
    THEN [pt EXCEPT ![idx].args = @ \o frag]
    ELSE [i \in DOMAIN pt \cup {idx} |->
             IF i = idx THEN [id |-> idx, name |-> name, args |-> frag] ELSE pt[i]]

\* chatStream, lines 859-872: a frame whose delta carries the next kn pieces
\* of the function name and the next k characters of the arguments of the
\* tool call at index idx; the first frame of an index carries the beginning
\* of the name.
ToolCallFrame ==
    /\ ~response.done
    /\ \E idx \in 1..Len(toolStream) :
          LET name == toolStream[idx].name
              args == toolStream[idx].args
              sent == Len(Joined(toolFed[idx]))
          IN \E kn \in 0..(Len(name) - nameFed[idx]), k \in 0..(Len(args) - sent) :
                LET frag == SubSeq(args, sent + 1, sent + k)
                    nameFrag == SubSeq(name, nameFed[idx] + 1, nameFed[idx] + kn)
                IN /\ IF idx \in DOMAIN pendingTools THEN kn + k > 0 ELSE kn > 0
                   /\ pendingTools' = Accumulate(pendingTools, idx, nameFrag, frag)
                   /\ toolFed' = [toolFed EXCEPT ![idx] =
                                     IF k = 0 /\ idx \in DOMAIN pendingTools
                                     THEN @ ELSE Append(@, frag)]
                   /\ nameFed' = [nameFed EXCEPT ![idx] = @ + kn]
    /\ UNCHANGED <<contentStream, toolStream, fed, filter, response>>
    /\ UNCHANGED tuiVars
    /\ UNCHANGED <<executorVars, provider, storageVars, providerLog, stream>>

\* Tool calls whose arguments parsed.
AllArgsParse(pt) == \A idx \in DOMAIN pt : Unmarshal(pt[idx].args).ok

\* A client that fails the whole call when the arguments of a tool call do
\* not parse: it returns an error and no response.
StreamEndStrict ==
    /\ ~response.done
    /\ fed = Len(contentStream)
    /\ \A idx \in 1..Len(toolStream) :
          /\ idx \in DOMAIN pendingTools
          /\ nameFed[idx] = Len(toolStream[idx].name)
          /\ Joined(toolFed[idx]) = toolStream[idx].args
    /\ filter' = Flush(filter)
    /\ \E o \in MapOrders(pendingTools) :
          response' =
             IF AllArgsParse(pendingTools)
             THEN [done |-> TRUE,
                   Message |-> filter'.accumulatedContent,
                   Reasoning |-> filter'.accumulatedReasoning,
                   ToolCalls |-> [i \in DOMAIN o |->
                                    FunctionCallData(pendingTools[o[i]].id,
                                                     pendingTools[o[i]].name,
                                                     Unmarshal(pendingTools[o[i]].args))]]
             ELSE [NoResponse EXCEPT !.done = TRUE]
    /\ UNCHANGED <<contentStream, toolStream, fed, toolFed, nameFed, pendingTools>>
    /\ UNCHANGED tuiVars
    /\ UNCHANGED <<executorVars, provider, storageVars, providerLog, stream>>

\* The function calls the Claude client returns for the tool-use blocks of a
\* message (llm/claude/client.go:455-476): a block whose input does not parse
\* is skipped.
ClaudeFunctionCalls(blocks) ==
    SelectSeq([i \in 1..Len(blocks) |->
                  FunctionCallData(i, blocks[i].name, Unmarshal(blocks[i].args))],
              LAMBDA fc : fc.args.ok)

\* chatStream, lines 881-893: the stream ends ([DONE] or EOF) once the provider
\* has sent everything; Flush, then the pending tool calls are resolved in the
\* order the map is ranged over.
StreamEnd ==
    /\ ~response.done
    /\ fed = Len(contentStream)
    /\ \A idx \in 1..Len(toolStream) :
          /\ idx \in DOMAIN pendingTools
          /\ nameFed[idx] = Len(toolStream[idx].name)
          /\ Joined(toolFed[idx]) = toolStream[idx].args
    /\ filter' = Flush(filter)
    /\ \E o \in MapOrders(pendingTools) :
          response' =
             [done |-> TRUE,
              Message |-> filter'.accumulatedContent,
              Reasoning |-> filter'.accumulatedReasoning,
              ToolCalls |-> [i \in DOMAIN o |->
                               FunctionCallData(pendingTools[o[i]].id, pendingTools[o[i]].name,
                                                Unmarshal(pendingTools[o[i]].args))]]
    /\ UNCHANGED <<contentStream, toolStream, fed, toolFed, nameFed, pendingTools>>
    /\ UNCHANGED tuiVars
    /\ UNCHANGED <<executorVars, provider, storageVars, providerLog, stream>>

\* One ChatStream call on a content stream with tool calls, usageLog, cut into frames
\* in every way.
InitDecoder ==
    /\ InitTUI
    /\ ExecutorIdle
    /\ ProviderWithIds
    /\ StorageEmpty /\ NoProviderCalls /\ stream = NoStream
    /\ authProvider = NoAuth
    /\ contentStream \in ContentStreams
    /\ toolStream \in ToolStreams
    /\ fed = 0
    /\ toolFed = [i \in 1..Len(toolStream) |-> <<>>]
    /\ nameFed = [i \in 1..Len(toolStream) |-> 0]
    /\ filter = NewThinkTagFilter
    /\ pendingTools = <<>>
    /\ response = NoResponse

\* The provider sends every function name whole, in the first frame of its index.
NamesWhole == \A idx \in 1..Len(toolStream) : Len(toolStream[idx].name) = 1
InitShortDecoder ==
    /\ InitDecoder
    /\ contentStream \in StreamsOf(MaxPieces - 2)
    /\ NamesWhole
NextDecoder == ContentFrame \/ ToolCallFrame \/ StreamEnd
SpecDecoder == InitShortDecoder /\ [][NextDecoder]_vars

\* The same call on a response that carries content only.
InitThinkFilter == InitDecoder /\ toolStream = <<>>
NextThinkFilter == ContentFrame \/ StreamEnd
SpecThinkFilter == InitThinkFilter /\ [][NextThinkFilter]_vars

\* The same call on content with a think block: text or a blank before it,
\* and up to MaxPieces pieces after it, blanks and newlines among them.
TrimPieces == Pieces \cup {<<"\n">>}
BeforeThink == {<<>>, <<" ">>, <<"a", " ">>}
AfterThink == {Joined(ps) : ps \in UNION {[1..m -> TrimPieces] : m \in 0..MaxPieces}}
InitTrim ==
    /\ InitTUI
    /\ ExecutorIdle
    /\ ProviderWithIds
    /\ StorageEmpty /\ NoProviderCalls /\ stream = NoStream
    /\ authProvider = NoAuth
    /\ contentStream \in {pre \o OpenTag \o <<"r">> \o CloseTag \o post :
                             pre \in BeforeThink, post \in AfterThink}
    /\ toolStream = <<>>
    /\ fed = 0
    /\ toolFed = <<>>
    /\ nameFed = <<>>
    /\ filter = NewThinkTagFilter
    /\ pendingTools = <<>>
    /\ response = NoResponse
SpecTrim == InitTrim /\ [][NextThinkFilter]_vars

\* The same call on a response that carries tool calls only.
InitToolCalls == InitDecoder /\ contentStream = <<>> /\ NamesWhole
NextToolCalls == ToolCallFrame \/ StreamEnd
SpecToolCalls == InitToolCalls /\ [][NextToolCalls]_vars

\* The same call on a response that carries tool calls and at most one
\* letter of text.
InitArguments == InitDecoder /\ contentStream \in {<<>>, <<"a">>} /\ NamesWhole
SpecArguments == InitArguments /\ [][NextDecoder]_vars

\* The same, with a provider that may send a function name in two pieces.
InitToolNames == InitDecoder /\ contentStream = <<>>
SpecToolNames == InitToolNames /\ [][NextToolCalls]_vars

-----------------------------------------------------------------------------
-----------------------------------------------------------------------------
\* The credentials (core/auth) and the test executor (unnamed/part_016).

\* The values a field of a credential can hold: empty, blank, or a value.
FieldValues == {<<>>, <<" ">>, <<"x">>}
Locations == {"", "header", "query", "HEADER", "body"}

\* strings.ToLower, on the words used here
ToLower(w) == IF w = "HEADER" THEN "header" ELSE w

NewBearerAuth(token) == [type |-> "bearer", token |-> token]
\* NewAPIKeyAuth (unnamed/part_004:160-169): an empty location means "header"
NewAPIKeyAuth(key, value, location) ==
    [type |-> "apikey", key |-> key, value |-> value,
     location |-> IF location = "" THEN "header" ELSE location]
NewBasicAuth(username, password) ==
    [type |-> "basic", username |-> username, password |-> password]

AuthProviders ==
    {NoAuthProvider}
    \cup {NewBearerAuth(t) : t \in FieldValues}
    \cup {NewAPIKeyAuth(k, v, l) : k \in {<<>>, <<"x">>}, v \in FieldValues, l \in Locations}
    \cup {NewBasicAuth(u, p) : u \in FieldValues, p \in {<<>>, <<"x">>}}

\* AuthProvider.Validate: the error text, or "" for nil (bearer.go:34-39,
\* unnamed/part_004:196-209, unnamed/part_002:38-46).
Validate(a) ==
    IF a.type = "bearer"
    THEN IF TrimSpace(a.token) = <<>> THEN "bearer token cannot be empty" ELSE ""
    ELSE IF a.type = "apikey"
    THEN IF TrimSpace(a.key) = <<>> THEN "API key name cannot be empty"
         ELSE IF TrimSpace(a.value) = <<>> THEN "API key value cannot be empty"
         ELSE IF ToLower(a.location) \notin {"header", "query"}
              THEN "location must be 'header' or 'query'"
         ELSE ""
    ELSE IF a.type = "basic"
    THEN IF TrimSpace(a.username) = <<>> THEN "username cannot be empty"
         ELSE IF TrimSpace(a.password) = <<>> THEN "password cannot be empty"
         ELSE ""
    ELSE ""

NewRequest == [headers |-> {}, query |-> {}]
Pair(k, v) == [k |-> k, v |-> v]

\* The request after the credential is put on it.
WithCredential(req, a) ==
    IF a.type = "bearer"
    THEN [req EXCEPT !.headers = @ \cup {Pair(<<"Authorization">>, <<"Bearer ">> \o a.token)}]
    ELSE IF a.type = "basic"
    THEN [req EXCEPT !.headers = @ \cup {Pair(<<"Authorization">>,
                                              <<"Basic ">> \o a.username \o <<":">> \o a.password)}]
    ELSE IF a.type = "apikey"
    THEN IF ToLower(a.location) = "header"
         THEN [req EXCEPT !.headers = @ \cup {Pair(a.key, a.value)}]
         ELSE [req EXCEPT !.query = @ \cup {Pair(a.key, a.value)}]
    ELSE req

\* A provider that puts the credential on the request without validating it.
ApplyUnchecked(req, a) == [err |-> "", req |-> WithCredential(req, a)]

\* AuthProvider.Apply (bearer.go:20-26, unnamed/part_004:171-188,
\* unnamed/part_002:24-30): validate, then put the credential on the request.
Apply(req, a) ==
    IF Validate(a) # ""
    THEN [err |-> Validate(a), req |-> req]
    ELSE IF a.type = "apikey" /\ ToLower(a.location) \notin {"header", "query"}
         THEN [err |-> "invalid location", req |-> req]
    ELSE [err |-> "", req |-> WithCredential(req, a)]

\* Executor.ExecuteTest (unnamed/part_016:42-108): the request is built, the
\* credential applied, and only then the request is sent; failed: the
\* transport failed.
ExecutorExecuteTest ==
    /\ Len(testResults) < MaxTests
    /\ LET applied == Apply(NewRequest, executor.authProvider)
       IN  IF applied.err # ""
           THEN /\ testResults' = Append(testResults,
                                         [error |-> <<"failed to apply auth", applied.err>>])
                /\ UNCHANGED sentRequests
           ELSE /\ sentRequests' = Append(sentRequests, applied.req)
                /\ \E failed \in BOOLEAN :
                      testResults' = Append(testResults,
                                            [error |-> IF failed THEN <<"request failed">>
                                                       ELSE <<>>])
    /\ UNCHANGED executor
    /\ UNCHANGED tuiVars
    /\ UNCHANGED <<decoderVars, provider, storageVars, providerLog, stream>>

\* An executor made with any credential (NewExecutor, unnamed/part_016:27-35).
InitExecutor ==
    /\ InitTUI
    /\ authProvider = NoAuth
    /\ DecoderIdle
    /\ ProviderWithIds
    /\ StorageEmpty /\ NoProviderCalls /\ stream = NoStream
    /\ executor \in [authProvider : AuthProviders]
    /\ sentRequests = <<>>
    /\ testResults = <<>>

NextExecutor == ExecutorExecuteTest
SpecExecutor == InitExecutor /\ [][NextExecutor]_vars

-----------------------------------------------------------------------------
\* The project store (infra/storage/project.go).  A project.json holds the
\* project as json.MarshalIndent writes it: ID, Name and IsTemporary are
\* written and read back under their own keys, none with omitempty.

\* SaveProject (project.go:141-160): the directory is chosen by
\* project.IsTemporary (GetProjectPathByType, 118-138) and the file written.
SaveProject(project) ==
    /\ IF project.IsTemporary
       THEN /\ tempProjectsDir' = [tempProjectsDir EXCEPT ![project.ID] = project]
            /\ UNCHANGED projectsDir
       ELSE /\ projectsDir' = [projectsDir EXCEPT ![project.ID] = project]
            /\ UNCHANGED tempProjectsDir
    /\ saved' = [saved EXCEPT ![project.ID] = project]
    /\ UNCHANGED tuiVars
    /\ UNCHANGED <<decoderVars, executorVars, provider, providerLog, stream>>

\* LoadProject (project.go:163-192): the permanent location first, the
\* temporary one when that file cannot be read; NoProject is the error.
LoadProject(projectID) ==
    IF projectsDir[projectID] # NoProject
    THEN projectsDir[projectID]
    ELSE tempProjectsDir[projectID]

\* ListProjects (project.go:195-218): LoadProject of every entry of the
\* permanent directory, as a set.
ListProjects ==
    {LoadProject(id) : id \in {i \in ProjectIDs : projectsDir[i] # NoProject}}

\* ListNamedProjects (project.go:379-393)
ListNamedProjects == {project \in ListProjects : ~project.IsTemporary /\ project.Name # ""}

InitProjects ==
    NewTestUIModel(NoAuth) /\ DecoderIdle /\ ExecutorIdle /\ ProviderWithIds /\ StorageEmpty /\ NoProviderCalls /\ stream = NoStream
NextProjects == \E project \in Projects : SaveProject(project)
SpecProjects == InitProjects /\ [][NextProjects]_vars

-----------------------------------------------------------------------------
\* One call of the OpenAI-compatible client, from the upstream answer to what
\* the orchestrator is handed.  An absent pointer, error or string is <<>>.

MaxRequests == 2
\* http.StatusOK
StatusOK == 200
\* The statuses and bodies the upstream answers with.
StatusCodes == {200, 201, 204, 400, 401, 429, 500}
Bodies == {<<>>, <<"b">>}
\* The "usage" member of the upstream answer: absent, or the two counts.
UpstreamUsages == {<<>>, <<TokenUsage(0, 0)>>, <<TokenUsage(10, 5)>>}
Upstream(status, body, usage) == [status |-> status, body |-> body, usage |-> usage]

\* fmt.Errorf("API error (%d): %s", resp.StatusCode, string(body))
\* (part_014:793, 918)
APIError(status, body) == <<"API error (">> \o Digits(status) \o <<"): ">> \o body

\* Client.chatStream (part_014:791-794, 799, 873-878, 890-894): any status other
\* than 200 is the error and nothing else; usage is a pointer set only when a
\* frame has a "usage" member.
chatStream(up) ==
    IF up.status # StatusOK
    THEN [response |-> <<>>, usage |-> <<>>, err |-> APIError(up.status, up.body)]
    ELSE [response |-> <<up.body>>, usage |-> up.usage, err |-> <<>>]

\* Client.chat (part_014:916-919, 947-948): the same status test; usage is
\* always allocated, and gjson's Int() of a missing member is 0.
chat(up) ==
    IF up.status # StatusOK
    THEN [response |-> <<>>, usage |-> <<>>, err |-> APIError(up.status, up.body)]
    ELSE [response |-> <<up.body>>,
          usage |-> IF up.usage = <<>> THEN <<TokenUsage(0, 0)>> ELSE up.usage,
          err |-> <<>>]

\* convertTokenUsage (part_007:133-141)
convertTokenUsage(usage) ==
    IF usage = <<>> THEN <<>> ELSE <<TokenUsage(usage[1].in, usage[1].out)>>

\* OpenAIProvider.Chat and ChatStream (part_007:31-67): an error is passed on,
\* otherwise a common.ChatResponse with the converted usage.
OpenAIProviderCall(r) ==
    IF r.err # <<>>
    THEN [response |-> <<>>, err |-> r.err]
    ELSE [response |-> <<[Message |-> r.response[1],
                          TokenUsage |-> convertTokenUsage(r.usage)]>>,
          err |-> <<>>]

\* BaseAgent.Chat and BaseAgent.ChatStream (base_agent.go:56-80, 117-148):
\* the counts start at 0 and are overwritten only when TokenUsage is not nil.
BaseAgentCall(prefix, p) ==
    IF p.err # <<>>
    THEN [chatResp |-> <<>>, err |-> <<prefix>> \o p.err]
    ELSE LET resp == p.response[1]
             reported == resp.TokenUsage # <<>>
         IN [chatResp |->
                <<[Message |-> resp.Message,
                   TokensUsed |-> IF reported
                                  THEN resp.TokenUsage[1].in + resp.TokenUsage[1].out ELSE 0,
                   InputTokens |-> IF reported THEN resp.TokenUsage[1].in ELSE 0,
                   OutputTokens |-> IF reported THEN resp.TokenUsage[1].out ELSE 0]>>,
             err |-> <<>>]

\* The chunks sendChatMessage's goroutine writes for the call
\* (handlers.go:79-95).
CallChunks(a) ==
    IF a.err # <<>>
    THEN <<Chunk("ERROR", a.err, <<>>)>>
    ELSE LET r == a.chatResp[1]
         IN <<Chunk("AGENT", r.Message, <<>>),
              Chunk("TOKENS", Sprintf(TokenUsage(r.InputTokens, r.OutputTokens)), <<>>),
              Chunk("DONE", <<>>, <<>>)>>

\* One entry of the log.
ProviderCall(name, up, client, agent, chunks) ==
    [call |-> name, upstream |-> up, client |-> client, agent |-> agent, chunks |-> chunks]

\* A streaming call: the upstream answers, and the answer goes up through the
\* client, the provider and the agent to the chunk channel.
ProviderChatStream(up) ==
    /\ Len(providerLog) < MaxRequests
    /\ LET client == chatStream(up)
       IN providerLog' = Append(providerLog,
              LET agent == BaseAgentCall("chat stream failed: ", OpenAIProviderCall(client))
              IN ProviderCall("ChatStream", up, client, agent, CallChunks(agent)))
    /\ UNCHANGED <<tuiVars, decoderVars, executorVars, provider, storageVars, stream>>

\* A non-streaming call: its answer is returned to the caller, not written to
\* the chunk channel.
ProviderChat(up) ==
    /\ Len(providerLog) < MaxRequests
    /\ LET client == chat(up)
       IN providerLog' = Append(providerLog,
              ProviderCall("Chat", up, client,
                           BaseAgentCall("chat failed: ", OpenAIProviderCall(client)), <<>>))
    /\ UNCHANGED <<tuiVars, decoderVars, executorVars, provider, storageVars, stream>>

InitProvider ==
    NewTestUIModel(NoAuth) /\ DecoderIdle /\ ExecutorIdle /\ ProviderWithIds /\ StorageEmpty
    /\ NoProviderCalls /\ stream = NoStream
NextProvider ==
    \E status \in StatusCodes, body \in Bodies, usage \in UpstreamUsages :
        \/ ProviderChatStream(Upstream(status, body, usage))
        \/ ProviderChat(Upstream(status, body, usage))
SpecProvider == InitProvider /\ [][NextProvider]_vars

-----------------------------------------------------------------------------
\* The command of sendChatMessage in detail (handlers.go:41-110): the worker
\* goroutine, the buffered channel streamChan and the reader on the UI side.
\* Events are numbered in the order the worker pushes them.

\* make(chan string, 100)
ChannelCapacity == 100
MaxChunks == 100     \* THINK and TEXT chunks the provider streams in one answer

\* The answers of a provider call: it streams some chunks and then fails, or
\* returns a response without or with tool calls.
StreamedChunks == {0, 1, MaxChunks}
Answers == [chunks : StreamedChunks, ending : {"ERROR", "DONE", "TOOLS"}]

\* The events the worker pushes for an answer, in order (handlers.go:66-95).
StreamEvents(answer) ==
    [i \in 1..answer.chunks |-> "TEXT"]
    \o (IF answer.ending = "ERROR" THEN <<"ERROR">>
        ELSE IF answer.ending = "TOOLS" THEN <<"AGENT", "TOOLS", "TOKENS", "DONE">>
        ELSE <<"AGENT", "TOKENS", "DONE">>)
EventKind(i) == StreamEvents(stream.answer)[i]
TotalEvents == Len(StreamEvents(stream.answer))

\* The provider hands the worker the next piece of its answer: a chunk, for
\* which ChatStream calls the callback, or the end of the answer, on which
\* ChatStream returns.  The worker is inside ChatStream, the earlier chunks
\* pushed.
ProviderDelivers ==
    /\ stream.reader # "none"
    /\ stream.got <= stream.answer.chunks
    /\ stream.got = stream.pushed
    /\ stream' = [stream EXCEPT !.got = @ + 1]
    /\ UNCHANGED <<tuiVars, decoderVars, executorVars, provider, storageVars, providerLog>>

\* A worker that sends without waiting (select with a default branch): an
\* event that finds the buffer full is dropped.
WorkerPushOrDrop ==
    /\ stream.pushed < TotalEvents
    /\ stream.pushed < stream.got \/ stream.got = stream.answer.chunks + 1
    /\ stream' = [stream EXCEPT !.buf = IF Len(@) < ChannelCapacity
                                         THEN Append(@, stream.pushed + 1) ELSE @,
                                 !.pushed = @ + 1]
    /\ UNCHANGED <<tuiVars, decoderVars, executorVars, provider, storageVars, providerLog>>

\* streamChan <- event: the worker pushes the next event it has; the send
\* waits while the buffer is full.
WorkerPush ==
    /\ stream.pushed < TotalEvents
    /\ stream.pushed < stream.got \/ stream.got = stream.answer.chunks + 1
    /\ Len(stream.buf) < ChannelCapacity
    /\ stream' = [stream EXCEPT !.buf = Append(@, stream.pushed + 1), !.pushed = @ + 1]
    /\ UNCHANGED <<tuiVars, decoderVars, executorVars, provider, storageVars, providerLog>>

\* defer close(streamChan): the worker returns.
WorkerClose ==
    /\ stream.reader # "none"
    /\ stream.pushed = TotalEvents
    /\ ~stream.closed
    /\ stream' = [stream EXCEPT !.closed = TRUE]
    /\ UNCHANGED <<tuiVars, decoderVars, executorVars, provider, storageVars, providerLog>>

\* Update, streamReasoningMsg (update.go:43-47): the first waitForReasoning
\* on the channel.
StreamReasoningMsg ==
    /\ stream.reader = "streamReasoningMsg"
    /\ stream' = [stream EXCEPT !.reader = "waitForReasoning"]
    /\ UNCHANGED <<tuiVars, decoderVars, executorVars, provider, storageVars, providerLog>>

\* A reader that a cancellation stops: once the orchestrator is back in Idle
\* nothing is received any more.
WaitForReasoningUnlessIdle ==
    /\ agentState # StateIdle
    /\ stream.reader = "waitForReasoning"
    /\ stream.buf # <<>> \/ stream.closed
    /\ stream' = IF stream.buf # <<>>
                 THEN [stream EXCEPT !.buf = Tail(@), !.msg = Head(stream.buf),
                                     !.reader = "reasoningChunkMsg"]
                 ELSE [stream EXCEPT !.msg = 0, !.reader = "streamDoneMsg"]
    /\ UNCHANGED <<tuiVars, decoderVars, executorVars, provider, storageVars, providerLog>>

\* waitForReasoning (handlers.go:102-110): chunk, ok := <-ch takes the oldest
\* event of the buffer, or, from a closed and empty channel, ok = false; the
\* command returns reasoningChunkMsg or streamDoneMsg (msg 0).
WaitForReasoning ==
    /\ stream.reader = "waitForReasoning"
    /\ stream.buf # <<>> \/ stream.closed
    /\ stream' = IF stream.buf # <<>>
                 THEN [stream EXCEPT !.buf = Tail(@), !.msg = Head(stream.buf),
                                     !.reader = "reasoningChunkMsg"]
                 ELSE [stream EXCEPT !.msg = 0, !.reader = "streamDoneMsg"]
    /\ UNCHANGED <<tuiVars, decoderVars, executorVars, provider, storageVars, providerLog>>

\* Update on the message of waitForReasoning: handleStreamingMsg reads on after
\* every chunk but ERROR and DONE (update.go:347-435); streamDoneMsg ends the
\* reading (update.go:49-51).  What the handlers do to the orchestrator is
\* modelled by the Chunk actions.
ReasoningChunkMsg ==
    /\ stream.reader \in {"reasoningChunkMsg", "streamDoneMsg"}
    /\ stream' = IF stream.reader = "reasoningChunkMsg"
                 THEN [stream EXCEPT !.received = Append(@, stream.msg),
                                     !.reader = IF EventKind(stream.msg) \in {"ERROR", "DONE"}
                                                THEN "stopped" ELSE "waitForReasoning"]
                 ELSE [stream EXCEPT !.reader = "stopped"]
    /\ agentState' =
           IF \/ stream.reader = "streamDoneMsg"
              \/ EventKind(stream.msg) = "ERROR"
              \/ EventKind(stream.msg) = "DONE" /\ stream.answer.ending = "DONE"
           THEN StateIdle ELSE agentState
    /\ UNCHANGED <<conversationHistory, lastMessage, cmds, calls, usageLog, escs, lastOp>>
    /\ TokensUnchanged
    /\ UIUnchanged /\ StreamUnchanged /\ TestsUnchanged /\ AuthUnchanged
    /\ UNCHANGED <<decoderVars, executorVars, provider, storageVars, providerLog>>

\* Update on Enter with a message (update.go:143-166) and the command of
\* sendChatMessage: the worker is started for the provider's answer and
\* streamReasoningMsg is returned.
UserInputStream ==
    /\ agentState = StateIdle
    /\ stream = NoStream
    /\ calls < MaxCalls
    /\ \E answer \in Answers :
          stream' = [NoStream EXCEPT !.answer = answer, !.reader = "streamReasoningMsg"]
    /\ conversationHistory' =
           Append(conversationHistory,
                  ChatMessage("user", <<"input">>, <<>>, NoFunctionResponse))
    /\ agentState' = StateProcessing
    /\ lastMessage' = "user"
    /\ calls' = calls + 1
    /\ lastOp' = UserOp("userInput")
    /\ UNCHANGED <<cmds, usageLog, escs>>
    /\ TokensUnchanged
    /\ UIUnchanged /\ StreamUnchanged /\ TestsUnchanged /\ AuthUnchanged
    /\ UNCHANGED <<decoderVars, executorVars, provider, storageVars, providerLog>>

\* One provider call from the prompt to the end of its stream; the user may
\* press Esc at any time.
NextStream ==
    \/ UserInputStream
    \/ ProviderDelivers
    \/ WorkerPush
    \/ WorkerClose
    \/ StreamReasoningMsg
    \/ WaitForReasoning
    \/ ReasoningChunkMsg
    \/ Esc
InitStream ==
    NewTestUIModel(NoAuth) /\ DecoderIdle /\ ExecutorIdle /\ ProviderWithIds /\ StorageEmpty
    /\ NoProviderCalls /\ stream = NoStream
SpecStream == InitStream /\ [][NextStream]_vars
\* The same with the scheduling the program runs under: the Go runtime runs
\* the worker whenever it can go on, Bubble Tea runs every command and hands
\* every message to Update, and the provider call ends: the provider goes on
\* delivering its answer to the end.
FairStream ==
    /\ SpecStream
    /\ WF_vars(ProviderDelivers)
    /\ WF_vars(WorkerPush)
    /\ WF_vars(WorkerClose)
    /\ WF_vars(StreamReasoningMsg)
    /\ WF_vars(WaitForReasoning)
    /\ WF_vars(ReasoningChunkMsg)

-----------------------------------------------------------------------------
Next ==
    \/ UserInput
    \/ SlashClear
    \/ AuthCommand
    \/ Esc
    \/ TestPlanDown
    \/ TestPlanSpace
    \/ TestPlanEnter
    \/ \E c \in InFlight : StreamReasoning(c)
    \/ \E c \in InFlight : ChunkError(c)
    \/ \E c \in InFlight : ChunkAgent(c)
    \/ \E c \in InFlight : ChunkTokens(c)
    \/ \E c \in InFlight : ChunkDone(c)
    \/ \E c \in InFlight : ChunkTools(c)
    \/ \E c \in InFlight : ChunkText(c)
    \/ \E c \in InFlight : handleProcessToolCalls(c)
    \/ \E c \in InFlight : ToolResultError(c)
    \/ \E c \in InFlight : ToolResultOk(c)
    \/ \E c \in InFlight : handleShowTestSelection(c)
    \/ \E c \in InFlight : BackendError(c)
    \/ \E c \in InFlight : handleGenerateTestPlanResult(c)
    \/ \E c \in InFlight : handleStartTestGroup(c)
    \/ \E c \in InFlight : RunNextTestDone(c)
    \/ \E c \in InFlight : RunNextTestHTTP(c)

Spec == Init /\ [][Next]_vars

\* The same program when the user never presses Esc.
NextWithoutEsc ==
    \/ UserInput
    \/ SlashClear
    \/ AuthCommand
    \/ TestPlanDown
    \/ TestPlanSpace
    \/ TestPlanEnter
    \/ \E c \in InFlight : StreamReasoning(c)
    \/ \E c \in InFlight : ChunkError(c)
    \/ \E c \in InFlight : ChunkAgent(c)
    \/ \E c \in InFlight : ChunkTokens(c)
    \/ \E c \in InFlight : ChunkDone(c)
    \/ \E c \in InFlight : ChunkTools(c)
    \/ \E c \in InFlight : ChunkText(c)
    \/ \E c \in InFlight : handleProcessToolCalls(c)
    \/ \E c \in InFlight : ToolResultError(c)
    \/ \E c \in InFlight : ToolResultOk(c)
    \/ \E c \in InFlight : handleShowTestSelection(c)
    \/ \E c \in InFlight : BackendError(c)
    \/ \E c \in InFlight : handleGenerateTestPlanResult(c)
    \/ \E c \in InFlight : handleStartTestGroup(c)
    \/ \E c \in InFlight : RunNextTestDone(c)
    \/ \E c \in InFlight : RunNextTestHTTP(c)

SpecWithoutEsc == Init /\ [][NextWithoutEsc]_vars

\* The chat loop with one fixed credential and no /auth command: the token
\* totals do not depend on the credential (update.go never reads authProvider
\* when it handles a TOKENS chunk).
InitTokens ==
    NewTestUIModel(NoAuth) /\ DecoderIdle /\ ExecutorIdle /\ ProviderWithIds /\ StorageEmpty /\ NoProviderCalls /\ stream = NoStream

NextTokens ==
    \/ UserInput
    \/ SlashClear
    \/ TestPlanDown
    \/ TestPlanSpace
    \/ TestPlanEnter
    \/ \E c \in InFlight : StreamReasoning(c)
    \/ \E c \in InFlight : ChunkError(c)
    \/ \E c \in InFlight : ChunkAgent(c)
    \/ \E c \in InFlight : ChunkTokens(c)
    \/ \E c \in InFlight : ChunkDone(c)
    \/ \E c \in InFlight : ChunkTools(c)
    \/ \E c \in InFlight : ChunkText(c)
    \/ \E c \in InFlight : handleProcessToolCalls(c)
    \/ \E c \in InFlight : ToolResultError(c)
    \/ \E c \in InFlight : ToolResultOk(c)
    \/ \E c \in InFlight : handleShowTestSelection(c)
    \/ \E c \in InFlight : BackendError(c)
    \/ \E c \in InFlight : handleGenerateTestPlanResult(c)
    \/ \E c \in InFlight : handleStartTestGroup(c)
    \/ \E c \in InFlight : RunNextTestDone(c)
    \/ \E c \in InFlight : RunNextTestHTTP(c)

SpecTokens == InitTokens /\ [][NextTokens]_vars

\* The program until it ends: one fixed credential, the user never presses
\* Esc, runs every test plan as it is shown, and may press Ctrl+C or type
\* /exit.
NextQuit ==
    \/ ~Terminated /\ UserInput
    \/ ~Terminated /\ SlashClear
    \/ ~Terminated /\ TestPlanEnter
    \/ \E c \in InFlight : ~Terminated /\ StreamReasoning(c)
    \/ \E c \in InFlight : ~Terminated /\ ChunkError(c)
    \/ \E c \in InFlight : ~Terminated /\ ChunkAgent(c)
    \/ \E c \in InFlight : ~Terminated /\ ChunkTokens(c)
    \/ \E c \in InFlight : ~Terminated /\ ChunkDone(c)
    \/ \E c \in InFlight : ~Terminated /\ ChunkTools(c)
    \/ \E c \in InFlight : ~Terminated /\ ChunkText(c)
    \/ \E c \in InFlight : ~Terminated /\ handleProcessToolCalls(c)
    \/ \E c \in InFlight : ~Terminated /\ ToolResultError(c)
    \/ \E c \in InFlight : ~Terminated /\ ToolResultOk(c)
    \/ \E c \in InFlight : ~Terminated /\ handleShowTestSelection(c)
    \/ \E c \in InFlight : ~Terminated /\ BackendError(c)
    \/ \E c \in InFlight : ~Terminated /\ handleGenerateTestPlanResult(c)
    \/ \E c \in InFlight : ~Terminated /\ handleStartTestGroup(c)
    \/ \E c \in InFlight : ~Terminated /\ RunNextTestDone(c)
    \/ \E c \in InFlight : ~Terminated /\ RunNextTestHTTP(c)
    \/ ~Terminated /\ AuthCommandUsage
    \/ ~Terminated /\ CtrlC
    \/ ~Terminated /\ SlashExit
    \/ \E c \in InFlight : ~Terminated /\ QuitMsg(c)

SpecQuit == InitTokens /\ [][NextQuit]_vars

\* The program with a provider whose tool calls carry no id (the client takes
\* the id as sent, unnamed/part_014:864): the test batches it asks for have no
\* tool id behind them.
InitWithoutToolIds ==
    InitTUI /\ DecoderIdle /\ ExecutorIdle /\ provider = [ids |-> FALSE] /\ StorageEmpty /\ NoProviderCalls /\ stream = NoStream
SpecWithoutToolIds == InitWithoutToolIds /\ [][NextWithoutEsc]_vars

\* The program started with any credential a flag, a saved project or a
\* wizard can configure.
InitCredentials ==
    /\ \E auth \in AllCredentials : NewTestUIModel(auth)
    /\ DecoderIdle /\ ExecutorIdle /\ ProviderWithIds /\ StorageEmpty /\ NoProviderCalls /\ stream = NoStream
SpecCredentials == InitCredentials /\ [][NextWithoutEsc]_vars

\* The program with the confirmation dialog, when the user never presses Esc
\* and types neither /clear nor an auth line.
NextConfirmation ==
    \/ UserInput
    \/ TestPlanDown
    \/ TestPlanSpace
    \/ TestPlanEnter
    \/ AgentResponse
    \/ ConfirmUp
    \/ ConfirmDown
    \/ ConfirmApprove
    \/ ConfirmDeny
    \/ ConfirmSkip
    \/ \E c \in InFlight : StreamReasoning(c)
    \/ \E c \in InFlight : ChunkError(c)
    \/ \E c \in InFlight : ChunkAgent(c)
    \/ \E c \in InFlight : ChunkTokens(c)
    \/ \E c \in InFlight : ChunkDone(c)
    \/ \E c \in InFlight : ChunkTools(c)
    \/ \E c \in InFlight : ChunkText(c)
    \/ \E c \in InFlight : handleProcessToolCalls(c)
    \/ \E c \in InFlight : ToolResultError(c)
    \/ \E c \in InFlight : ToolResultOk(c)
    \/ \E c \in InFlight : handleShowTestSelection(c)
    \/ \E c \in InFlight : BackendError(c)
    \/ \E c \in InFlight : handleGenerateTestPlanResult(c)
    \/ \E c \in InFlight : handleStartTestGroup(c)
    \/ \E c \in InFlight : RunNextTestDone(c)
    \/ \E c \in InFlight : RunNextTestHTTP(c)

SpecConfirmation == Init /\ [][NextConfirmation]_vars

-----------------------------------------------------------------------------
\* Properties of the conversation history.

\* The ids of the tool calls an assistant message carries.
CallIds(msg) == {msg.calls[k].id : k \in 1..Len(msg.calls)}

\* The positions of the history that hold a ToolResult (a FunctionResponse).
ToolResults == {i \in 1..Len(conversationHistory) : conversationHistory[i].fr.id # 0}

\* C1: every ToolResult in the history is directly preceded by the assistant
\* message that carries the ToolCall with its id; no message stands between them.
ToolResultDirectlyFollowsItsToolCall ==
    \A i \in ToolResults :
        /\ i > 1
        /\ conversationHistory[i - 1].role = "assistant"
        /\ conversationHistory[i].fr.id \in CallIds(conversationHistory[i - 1])

\* The positions before i of the assistant messages that carry tool calls.
AssistantToolCallsBefore(i) ==
    {j \in 1..(i - 1) : /\ conversationHistory[j].role = "assistant"
                        /\ Len(conversationHistory[j].calls) > 0}

\* C2: the id of every ToolResult in the history is an id of the most recent
\* assistant message with tool calls before it, and there is such a message.
ToolResultIdIsLatestToolCallId ==
    \A i \in ToolResults :
        LET J == AssistantToolCallsBefore(i)
        IN  /\ J # {}
            /\ conversationHistory[i].fr.id
                   \in CallIds(conversationHistory[CHOOSE j \in J : \A k \in J : k <= j])

-----------------------------------------------------------------------------
\* Properties of handleProcessToolCalls.

\* C3: the tool call handleProcessToolCalls starts is the first one of the
\* response, in the provider's order.
OnlyFirstToolCallExecuted ==
    (lastOp.op = "processToolCalls" /\ lastOp.taken # 0) => lastOp.taken = lastOp.first

\* C4: a tool outside the allow-list is started only in auto-execute mode; in
\* ask mode it waits for the approval given in StateAskingConfirmation.
UnlistedToolNeedsApproval ==
    (lastOp.op = "processToolCalls" /\ lastOp.tool # ""
        /\ shouldAskForConfirmation(lastOp.tool))
    => executionMode = ModeAutoExecute

-----------------------------------------------------------------------------
\* Properties of cancellation.

\* The orchestrator state a late result must not touch.
orchestratorState ==
    <<agentState, conversationHistory, streamedToolCalls, streamedAgentMessage,
      streamedTextChunk, pendingTestGroupToolCall, tests, pendingTests,
      testGroupResults, testGroupCompletedCount, currentTestToolID,
      currentTestToolName>>

\* C5: the message of a command that was in flight at an Esc is discarded: its
\* handler changes neither the conversation history nor the orchestrator state.
LateResultsDiscarded ==
    [][lastOp'.stale => UNCHANGED orchestratorState]_vars

\* C6: Esc outside Idle moves to Idle in the same step and reports "Operation
\* cancelled"; afterwards no command that was in flight starts a tool call or
\* sends the request of a remaining test.
CancelStopsToolsAndTests ==
    [][/\ lastOp'.op = "esc" =>
              agentState' = StateIdle /\ lastMessage' = "Operation cancelled"
       /\ lastOp'.stale =>
              /\ ~(lastOp'.op = "processToolCalls" /\ lastOp'.taken # 0)
              /\ httpLog' = httpLog]_vars

\* C7: at most one provider stream is being read and at most one tool call is
\* executing at any time.
OneResponseAndOneToolAtATime ==
    /\ Count(cmds, {"streamReasoning", "waitForReasoning"}) <= 1
    /\ Count(cmds, {"executeTool", "GenerateTestPlan"}) <= 1

-----------------------------------------------------------------------------
\* Properties of a test group.

\* The test numbers of a queue, of the requests sent for the tool call id, and
\* of the results of a ToolResult.
QueueOf(q) == [k \in 1..Len(q) |-> q[k].n]
RequestsOf(id) == QueueOf(SelectSeq(httpLog, LAMBDA r : r.id = id))
IsPrefix(s, t) == Len(s) <= Len(t) /\ \A k \in 1..Len(s) : s[k] = t[k]
GroupResultsOf(id) ==
    {i \in ToolResults : conversationHistory[i].fr.id = id}

\* C8: the requests of a test group started for a provider's
\* ExecuteTestGroup call are sent one by one in queue order; no
\* ToolResult for the call is in the history before its last test is done;
\* the ToolResult then appended is the only one with that id, its count is the
\* length N of the queue and it holds the N results in queue order; and the
\* step that appends it calls the provider again.
TestGroupRunsQueueThenOneResult ==
    /\ \A b \in 1..Len(batchTests) :
         LET id == batchTests[b].id
             queue == batchTests[b].queue
         IN  /\ id # 0
             /\ IsPrefix(RequestsOf(id), QueueOf(queue))
             /\ Cardinality(GroupResultsOf(id)) <= 1
             /\ Len(RequestsOf(id)) < Len(queue) => GroupResultsOf(id) = {}
             /\ \A i \in GroupResultsOf(id) :
                  /\ conversationHistory[i].fr.name = "ExecuteTestGroup"
                  /\ conversationHistory[i].fr.count = Len(queue)
                  /\ QueueOf(conversationHistory[i].fr.results) = QueueOf(queue)
                  /\ RequestsOf(id) = QueueOf(queue)
    /\ lastOp.op = "runNextTestDone" =>
         /\ Len(batchTests) > 0
         /\ GroupResultsOf(batchTests[Len(batchTests)].id) = {Len(conversationHistory)}
         /\ Count(cmds, {"streamReasoning"}) = 1
         /\ agentState = StateProcessing

\* C9: a test with requires_auth=false leaves the orchestrator's and the
\* executor's credential as they were, whether or not its request failed.
NoAuthTestKeepsCredential ==
    [][(lastOp'.op = "runNextTest" /\ ~lastOp'.ra) =>
           /\ authProvider' = authProvider
           /\ executorAuth' = executorAuth]_vars

\* C9, its case: a requires_auth=false test was sent without the credential,
\* failed, and the bearer credential is still the active one.
NoAuthTestFailedUnderBearer ==
    /\ lastOp.op = "runNextTest"
    /\ ~lastOp.ra
    /\ lastOp.failed
    /\ httpLog[Len(httpLog)].cred = NoAuth
    /\ authProvider = "bearer"
    /\ executorAuth = "bearer"

\* C10: a failed tool execution ends as the error field of the ToolResult with
\* the failed call's id, appended to the history, and the provider is called again.
ToolFailureAnsweredByToolResult ==
    (lastOp.op \in {"toolResult", "backendError"} /\ lastOp.failed) =>
        /\ Len(conversationHistory) > 0
        /\ conversationHistory[Len(conversationHistory)].fr.id = lastOp.taken
        /\ conversationHistory[Len(conversationHistory)].fr.error
        /\ Count(cmds, {"streamReasoning"}) >= 1

-----------------------------------------------------------------------------
\* Properties of provider errors.

-----------------------------------------------------------------------------
\* Properties of the confirmation dialog.

\* C12: choosing deny ends in Idle with no pending tool call, leaves the
\* conversation history and the commands in flight as they were and sends no
\* request; and a tool call that was refused is at no later time executing,
\* current, or answered by a ToolResult.
DenyLeavesHistoryAndNeverRunsTool ==
    /\ [][lastOp'.op = "confirmDeny" =>
              /\ agentState' = StateIdle
              /\ pendingToolCall' = NoToolCall
              /\ conversationHistory' = conversationHistory
              /\ cmds' = cmds
              /\ httpLog' = httpLog
              /\ calls' = calls]_vars
    /\ [](\A id \in refused :
              /\ \A c \in InFlight : c.tc.id # id
              /\ currentToolCall.id # id
              /\ \A i \in ToolResults : conversationHistory[i].fr.id # id)

\* C12, its case: the tool call of the last assistant message was denied.
ToolCallDenied ==
    /\ lastOp.op = "confirmDeny"
    /\ Len(conversationHistory) > 0
    /\ CallIds(conversationHistory[Len(conversationHistory)]) \cap refused # {}
    /\ agentState = StateIdle

-----------------------------------------------------------------------------
\* The streaming decoder.

\* What chatStream returns for the content fed as one piece.
WholeDecode == Flush(Process(NewThinkTagFilter, contentStream))
\* The tool calls of the stream, each resolved from its whole arguments.
WholeToolCalls ==
    [i \in 1..Len(toolStream) |->
        FunctionCallData(i, toolStream[i].name, Unmarshal(toolStream[i].args))]

\* C14: however the stream is cut into frames, the response has the visible
\* text, the reasoning text and the tool calls of the stream fed as one piece.
DecoderResultIndependentOfChunking ==
    response.done =>
        /\ response.Message = WholeDecode.accumulatedContent
        /\ response.Reasoning = WholeDecode.accumulatedReasoning
        /\ response.ToolCalls = WholeToolCalls

\* The text part of C14, which holds.
DecoderTextIndependentOfChunking ==
    response.done =>
        /\ response.Message = WholeDecode.accumulatedContent
        /\ response.Reasoning = WholeDecode.accumulatedReasoning

FragmentsParseAsTheirConcatenation ==
    /\ \A idx \in DOMAIN pendingTools :
          pendingTools[idx].args = Joined(toolFed[idx])
    /\ response.done =>
          \A i \in DOMAIN response.ToolCalls :
             response.ToolCalls[i].args = Unmarshal(Joined(toolFed[response.ToolCalls[i].id]))

\* A call whose arguments came in three fragments resolved to both members.
ArgumentsResolvedFromThreeFragments ==
    /\ response.done
    /\ \E i \in DOMAIN response.ToolCalls :
          /\ Len(toolFed[response.ToolCalls[i].id]) = 3
          /\ \A f \in DOMAIN toolFed[response.ToolCalls[i].id] :
                toolFed[response.ToolCalls[i].id][f] # <<>>
          /\ response.ToolCalls[i].args = [ok |-> TRUE, members |-> {"a", "b"}]

-----------------------------------------------------------------------------
\* Token accounting.

RECURSIVE SumUsage(_)
SumUsage(log) ==
    IF log = <<>> THEN NoUsage
    ELSE LET rest == SumUsage(Tail(log))
         IN TokenUsage(Head(log).in + rest.in, Head(log).out + rest.out)

\* The usage in the TOKENS chunks the handler has still to read.
UnreadUsage ==
    LET unread(c) ==
            SumUsage([i \in 1..Len(c.chunks) |->
                        IF c.chunks[i].kind = "TOKENS"
                        THEN TokenUsage(Sscanf(c.chunks[i].text).in, Sscanf(c.chunks[i].text).out)
                        ELSE NoUsage])
        RECURSIVE total(_)
        total(S) ==
            IF S = {} THEN NoUsage
            ELSE LET c == CHOOSE x \in S : TRUE
                     rest == total(S \ {c})
                 IN TokenUsage(cmds[c] * unread(c).in + rest.in,
                               cmds[c] * unread(c).out + rest.out)
    IN total(InFlight)

\* C17: the totals are the component-wise sum of the usage reported by the
\* successful provider calls, each counted once: the calls whose TOKENS chunk
\* is still unread are the only ones missing, and with nothing in flight the
\* totals are the whole sum.
TokenTotalsAreSumOfReportedUsage ==
    /\ inputTokens + UnreadUsage.in = SumUsage(usageLog).in
    /\ outputTokens + UnreadUsage.out = SumUsage(usageLog).out
    /\ cmds = EmptyBag =>
          TokenUsage(inputTokens, outputTokens) = SumUsage(usageLog)

\* Two calls reported {10, 5} and {7, 3} and the totals are {17, 8}.
TwoUsagesSummed ==
    /\ cmds = EmptyBag
    /\ usageLog = <<TokenUsage(10, 5), TokenUsage(7, 3)>>
    /\ inputTokens = 17
    /\ outputTokens = 8

-----------------------------------------------------------------------------
\* Credentials.

\* C18: no message of the conversation history, which is what every provider
\* call sends, holds a credential value.
NoCredentialInProviderMessages ==
    \A i \in DOMAIN conversationHistory :
        /\ \A k \in DOMAIN conversationHistory[i].content :
               conversationHistory[i].content[k] # CredentialValue
        /\ \A r \in DOMAIN conversationHistory[i].fr.results :
               \A k \in DOMAIN conversationHistory[i].fr.results[r].text :
                  conversationHistory[i].fr.results[r].text[k] # CredentialValue

\* A field is missing: it is empty or blank.
Blank(s) == \A i \in DOMAIN s : s[i] \in Whitespace
\* The message that names the first missing or invalid field of a credential.
FieldMessage(a) ==
    IF a.type = "bearer" /\ Blank(a.token) THEN "bearer token cannot be empty"
    ELSE IF a.type = "apikey" /\ Blank(a.key) THEN "API key name cannot be empty"
    ELSE IF a.type = "apikey" /\ Blank(a.value) THEN "API key value cannot be empty"
    ELSE IF a.type = "apikey" /\ a.location \notin {"header", "query", "HEADER"}
        THEN "location must be 'header' or 'query'"
    ELSE IF a.type = "basic" /\ Blank(a.username) THEN "username cannot be empty"
    ELSE IF a.type = "basic" /\ Blank(a.password) THEN "password cannot be empty"
    ELSE ""

\* C19: for a credential with a missing or invalid field every test is
\* answered with the message naming that field and no request is sent; for
\* any other credential every test sends one request.
InvalidCredentialSendsNoRequest ==
    LET a == executor.authProvider
    IN IF FieldMessage(a) # ""
       THEN /\ sentRequests = <<>>
            /\ \A i \in DOMAIN testResults :
                  testResults[i].error = <<"failed to apply auth", FieldMessage(a)>>
       ELSE Len(sentRequests) = Len(testResults)

\* Tests were asked of an executor whose bearer token is blank.
BlankBearerTokenRejected ==
    /\ executor.authProvider = NewBearerAuth(<<" ">>)
    /\ Len(testResults) = MaxTests
    /\ sentRequests = <<>>

-----------------------------------------------------------------------------
\* Test batches without a tool id.

\* C20: the step that ends a test batch with no tool id behind it appends no
\* ToolResult and appends the summary as a user message, which the provider
\* call it makes then sends.
BatchWithoutToolCallEndsWithSummary ==
    [][(lastOp'.op = "runNextTestDone" /\ currentTestToolID = 0) =>
           /\ conversationHistory' =
                  Append(conversationHistory,
                         ChatMessage("user", <<"Tests completed">>, <<>>, NoFunctionResponse))
           /\ calls' = calls + 1]_vars

\* The part of C20 that holds: no ToolResult is appended and the provider is
\* called.
BatchWithoutToolCallAppendsNoToolResult ==
    [][(lastOp'.op = "runNextTestDone" /\ currentTestToolID = 0) =>
           /\ conversationHistory' = conversationHistory
           /\ calls' = calls + 1]_vars

-----------------------------------------------------------------------------
\* Errors and the end of the program.

\* The step handled an error: a provider or transport error, a failed tool
\* execution, a failed test-plan generation, a test whose request or credential
\* failed, or a wrong auth line.
HandledError(op) ==
    \/ op.op \in {"ERROR", "backendError", "authUsage"}
    \/ op.op \in {"toolResult", "runNextTest"} /\ op.failed

-----------------------------------------------------------------------------
\* The project store.

\* C22: every project whose last save was temporary loads by its id as that
\* project, temporary, and is not listed; and the named projects listed are
\* exactly the projects whose last save was permanent with a name.
TemporaryLoadableAndOnlyNamedListed ==
    /\ \A id \in ProjectIDs :
          (saved[id] # NoProject /\ saved[id].IsTemporary) =>
              /\ LoadProject(id) = saved[id]
              /\ LoadProject(id).IsTemporary
              /\ \A project \in ListNamedProjects : project.ID # id
    /\ ListNamedProjects =
          {saved[id] : id \in {i \in ProjectIDs : /\ saved[i] # NoProject
                                                  /\ ~saved[i].IsTemporary
                                                  /\ saved[i].Name # ""}}

\* The part of C22 that holds: it is true of every id that was never saved
\* both as temporary and as permanent.
SavedInOneDirectoryLoadsAsSaved ==
    \A id \in ProjectIDs :
        (projectsDir[id] = NoProject \/ tempProjectsDir[id] = NoProject) =>
            /\ LoadProject(id) = saved[id]
            /\ (saved[id] \in ListNamedProjects) <=>
                   (saved[id] # NoProject /\ ~saved[id].IsTemporary /\ saved[id].Name # "")

-----------------------------------------------------------------------------
\* Progress of a turn.

\* The states that wait for the user: the prompt, the test selection and the
\* confirmation dialog.
WaitsForUser ==
    agentState \in {StateIdle, StateShowingTestPlan, StateAskingConfirmation}

\* C23: in every reachable state the orchestrator waits for the user or a
\* command is in flight whose message moves it on; it is never outside Idle
\* with nothing pending.
NeverStuckOutsideIdle == cmds = EmptyBag => WaitsForUser

\* The part of C23 that holds: the only way to be outside Idle with nothing
\* pending is a GenerateTestPlan call without its "what" argument.
StuckOnlyByTestPlanWithoutWhat ==
    [][(cmds' = EmptyBag /\ ~WaitsForUser' /\ ~(cmds = EmptyBag /\ ~WaitsForUser)) =>
           /\ lastOp'.op = "processToolCalls"
           /\ lastMessage' = "warning"]_vars

-----------------------------------------------------------------------------
\* The life of a tool call.

\* The positions of the history whose assistant message carries the call id.
MessagesCarrying(id) ==
    {i \in 1..Len(conversationHistory) :
        /\ conversationHistory[i].role = "assistant"
        /\ id \in CallIds(conversationHistory[i])}

\* C24: a tool call is attached to the assistant message of one turn only,
\* and the step that starts a tool call starts one of the latest assistant
\* message that has no ToolResult yet.
ToolCallConsumedOnce ==
    /\ [](\A i \in 1..Len(conversationHistory) :
              \A id \in CallIds(conversationHistory[i]) :
                  Cardinality(MessagesCarrying(id)) = 1)
    /\ [][(lastOp'.op = "processToolCalls" /\ lastOp'.taken # 0) =>
              /\ Len(conversationHistory) > 0
              /\ lastOp'.taken \in CallIds(conversationHistory[Len(conversationHistory)])
              /\ GroupResultsOf(lastOp'.taken) = {}]_vars

\* The part of C24 that holds: no tool call is started a second time or in a
\* later turn.
ToolCallNeverStartedTwice ==
    [][(lastOp'.op = "processToolCalls" /\ lastOp'.taken # 0) =>
           /\ Len(conversationHistory) > 0
           /\ lastOp'.taken \in CallIds(conversationHistory[Len(conversationHistory)])
           /\ Cardinality(MessagesCarrying(lastOp'.taken)) = 1
           /\ GroupResultsOf(lastOp'.taken) = {}]_vars

-----------------------------------------------------------------------------
\* The credential of a test request.

\* C25: between two steps the executor holds the configured credential, never
\* the swapped-in one; and the step that runs a test sends exactly one request,
\* with the configured credential when the test has requires_auth=true and
\* with none when it has requires_auth=false, and ends with the configured
\* credential unchanged and installed in the executor again.
TestRequestCarriesItsCredential ==
    /\ [](executorAuth = authProvider)
    /\ [][lastOp'.op = "runNextTest" =>
              /\ Len(httpLog') = Len(httpLog) + 1
              /\ httpLog'[Len(httpLog')].ra = lastOp'.ra
              /\ httpLog'[Len(httpLog')].cred =
                     IF lastOp'.ra THEN authProvider ELSE NoAuth
              /\ authProvider' = authProvider
              /\ executorAuth' = authProvider]_vars

\* C25, its case: under a bearer credential a requires_auth=false test was
\* sent without it and the next test, requires_auth=true, was sent with it.
SwapGovernedOneRequest ==
    /\ lastOp.op = "runNextTest"
    /\ Len(httpLog) = 2
    /\ ~httpLog[1].ra /\ httpLog[1].cred = NoAuth
    /\ httpLog[2].ra /\ httpLog[2].cred = "bearer"
    /\ authProvider = "bearer"
    /\ executorAuth = "bearer"

-----------------------------------------------------------------------------
\* Tool calls of a stream.

\* The positions of the response whose tool call came from index idx.
ResolvedFrom(idx) == {i \in DOMAIN response.ToolCalls : response.ToolCalls[i].id = idx}

\* C26: no tool call is resolved before the stream ends; then every index of
\* the stream has exactly one tool call in the response, whose name is the
\* whole name sent for the index and whose arguments are the parse of all the
\* argument text sent for it.
OneToolCallPerIndexWithWholeNameAndArguments ==
    /\ ~response.done => response.ToolCalls = <<>>
    /\ response.done =>
          /\ Len(response.ToolCalls) = Len(toolStream)
          /\ \A idx \in 1..Len(toolStream) :
                /\ Cardinality(ResolvedFrom(idx)) = 1
                /\ \A i \in ResolvedFrom(idx) :
                      /\ response.ToolCalls[i].name = toolStream[idx].name
                      /\ response.ToolCalls[i].args = Unmarshal(toolStream[idx].args)

\* The part of C26 that holds: one tool call per index, resolved at the end of
\* the stream, with the whole arguments and the piece of the name that the
\* first frame of the index carried.
OneToolCallPerIndexWithFirstNameFragment ==
    /\ ~response.done => response.ToolCalls = <<>>
    /\ response.done =>
          /\ Len(response.ToolCalls) = Len(toolStream)
          /\ \A idx \in 1..Len(toolStream) :
                /\ Cardinality(ResolvedFrom(idx)) = 1
                /\ \A i \in ResolvedFrom(idx) :
                      /\ IsPrefix(response.ToolCalls[i].name, toolStream[idx].name)
                      /\ response.ToolCalls[i].name # <<>>
                      /\ response.ToolCalls[i].args = Unmarshal(toolStream[idx].args)

-----------------------------------------------------------------------------
\* Malformed arguments.

\* The indexes of the stream whose argument text is not valid JSON.
Malformed == {idx \in 1..Len(toolStream) : ~Unmarshal(toolStream[idx].args).ok}

\* C27: the call returns a response whatever the argument texts are; the
\* response has the text of the stream and one tool call per index, with its
\* name; a tool call with malformed arguments has no arguments and every
\* other one has its parsed arguments.  The Claude client returns the calls
\* that parse, in order, and skips the others.
MalformedArgumentsDropOnlyThatCall ==
    /\ response.done =>
          /\ response.Message = WholeDecode.accumulatedContent
          /\ response.Reasoning = WholeDecode.accumulatedReasoning
          /\ Len(response.ToolCalls) = Len(toolStream)
          /\ \A idx \in 1..Len(toolStream) :
                /\ Cardinality(ResolvedFrom(idx)) = 1
                /\ \A i \in ResolvedFrom(idx) :
                      /\ response.ToolCalls[i].name = toolStream[idx].name
                      /\ response.ToolCalls[i].args =
                             IF idx \in Malformed THEN NilArgs
                             ELSE Unmarshal(toolStream[idx].args)
    /\ LET claudeCalls == ClaudeFunctionCalls(toolStream)
       IN /\ Len(claudeCalls) = Len(toolStream) - Cardinality(Malformed)
          /\ \A i \in DOMAIN claudeCalls :
                /\ claudeCalls[i].id \notin Malformed
                /\ claudeCalls[i].name = toolStream[claudeCalls[i].id].name
                /\ claudeCalls[i].args = Unmarshal(toolStream[claudeCalls[i].id].args)
          /\ \A i, j \in DOMAIN claudeCalls : i < j => claudeCalls[i].id < claudeCalls[j].id

\* C27, its case: a response with text and two tool calls, the first with
\* malformed arguments and none, the second with its arguments.
MalformedCallBesideIntactCall ==
    /\ response.done
    /\ response.Message # <<>>
    /\ Malformed = {1}
    /\ Len(toolStream) = 2
    /\ \A i \in ResolvedFrom(1) : response.ToolCalls[i].args = NilArgs
    /\ \A i \in ResolvedFrom(2) : response.ToolCalls[i].args.ok

-----------------------------------------------------------------------------
\* What an "API error" text says: the text read back, the status between the
\* parentheses and the body after the colon.
IsAPIError(err) == Len(err) >= 5 /\ err[1] = "API error (" /\ err[5] = "): "
ErrorStatus(err) == Atoi(SubSeq(err, 2, 4))
ErrorBody(err) == SubSeq(err, 6, Len(err))
Non2xx(status) == status < 200 \/ status > 299
\* The client returned the API error of this upstream answer and nothing else.
ReturnedAPIError(c) ==
    /\ IsAPIError(c.client.err)
    /\ ErrorStatus(c.client.err) = c.upstream.status
    /\ ErrorBody(c.client.err) = c.upstream.body
    /\ c.client.response = <<>>
    /\ c.client.usage = <<>>

\* C28: a provider call whose upstream answer has a status outside 200..299
\* returns an error that carries the status and the raw body, and no response;
\* an answer with a status in 200..299 is not turned into this error.
Non2xxIsAPIErrorAnd2xxIsNot ==
    \A i \in 1..Len(providerLog) :
        LET c == providerLog[i]
        IN  IF Non2xx(c.upstream.status)
            THEN ReturnedAPIError(c)
            ELSE ~IsAPIError(c.client.err)

\* What holds instead: every status other than 200 is the error, 200 alone is
\* a response.
Non200IsAPIError ==
    \A i \in 1..Len(providerLog) :
        LET c == providerLog[i]
        IN  IF c.upstream.status # StatusOK
            THEN ReturnedAPIError(c)
            ELSE c.client.err = <<>> /\ c.client.response = <<c.upstream.body>>

\* A streaming call answered with 201 and one with 500 have been made.
CreatedAndServerErrorAnswered ==
    /\ Len(providerLog) = 2
    /\ providerLog[1].upstream.status = 201
    /\ providerLog[2].upstream.status = 500
    /\ providerLog[2].upstream.body = <<"b">>

-----------------------------------------------------------------------------
\* What the orchestrator is handed about the usage of a call that succeeded:
\* the three counts of the agent's ChatResponse and the chunks of the call.
Succeeded(c) == c.agent.err = <<>>
UsageHandedOver(c) ==
    <<c.agent.chatResp[1].TokensUsed, c.agent.chatResp[1].InputTokens,
      c.agent.chatResp[1].OutputTokens,
      [i \in 1..Len(c.chunks) |-> IF c.chunks[i].kind = "TOKENS" THEN c.chunks[i].text ELSE <<>>]>>

\* C30: a call that succeeded without the upstream reporting a usage and a
\* call of the same kind for which it reported {in: 0, out: 0} hand different
\* usage information to the orchestrator.
AbsentUsageDistinctFromReportedZero ==
    \A i, j \in 1..Len(providerLog) :
        LET a == providerLog[i]
            b == providerLog[j]
        IN  /\ Succeeded(a) /\ Succeeded(b) /\ a.call = b.call
            /\ a.upstream.usage = <<>>
            /\ b.upstream.usage = <<TokenUsage(0, 0)>>
            => UsageHandedOver(a) # UsageHandedOver(b)

\* What holds instead: the streaming client still returns an absent usage as
\* nil, and the agent hands it over as the counts 0, 0 and the chunk "0,0".
AbsentUsageHandedOverAsZero ==
    \A i \in 1..Len(providerLog) :
        LET c == providerLog[i]
        IN  Succeeded(c) =>
            /\ c.call = "ChatStream" => c.client.usage = c.upstream.usage
            /\ c.call = "Chat" => c.client.usage # <<>>
            /\ c.upstream.usage = <<>> =>
                /\ c.agent.chatResp[1].InputTokens = 0
                /\ c.agent.chatResp[1].OutputTokens = 0
                /\ c.agent.chatResp[1].TokensUsed = 0
                /\ c.call = "ChatStream" => c.chunks[2] = Chunk("TOKENS", <<"0", ",", "0">>, <<>>)
            /\ c.upstream.usage # <<>> =>
                /\ c.agent.chatResp[1].InputTokens = c.upstream.usage[1].in
                /\ c.agent.chatResp[1].OutputTokens = c.upstream.usage[1].out

-----------------------------------------------------------------------------
\* The visible text of a stream, character by character: outside a think
\* block every character up to the next opening tag; inside it nothing up to
\* the closing tag; after the closing tag nothing while the characters are
\* whitespace, and from the first other character on as outside.
StartsWith(s, tag) == Len(s) >= Len(tag) /\ SubSeq(s, 1, Len(tag)) = tag
RECURSIVE Scan(_, _)
Scan(s, mode) ==
    IF s = <<>> THEN <<>>
    ELSE IF mode = "think"
    THEN IF StartsWith(s, CloseTag)
         THEN Scan(SubSeq(s, Len(CloseTag) + 1, Len(s)), "trim")
         ELSE Scan(Tail(s), "think")
    ELSE IF mode = "trim" /\ Head(s) \in Whitespace
    THEN Scan(Tail(s), "trim")
    ELSE IF StartsWith(s, OpenTag)
         THEN Scan(SubSeq(s, Len(OpenTag) + 1, Len(s)), "think")
         ELSE <<Head(s)>> \o Scan(Tail(s), "text")

-----------------------------------------------------------------------------
\* The test-plan tool call.

\* The step handled the end of a test-plan generation: its result or its error.
TestPlanGenerationEnded(op) == op.op \in {"backendError", "generateTestPlanResult"}
\* The ToolResult of the GenerateTestPlan call with this id.
IsTestPlanToolResult(msg, id) ==
    /\ msg.role = "user"
    /\ msg.content = <<>>
    /\ msg.calls = <<>>
    /\ msg.fr.id = id
    /\ msg.fr.name = "GenerateTestPlan"

\* C31: the step that ends a test-plan generation appends to the history
\* exactly one message, the ToolResult of that tool call, and makes the
\* second provider round trip, the one that resumes the conversation; no
\* message of the generation's own list ever enters the history.
TestPlanCallIsOneToolResultAndTwoRoundTrips ==
    [][/\ TestPlanGenerationEnded(lastOp') =>
              /\ Len(conversationHistory') = Len(conversationHistory) + 1
              /\ SubSeq(conversationHistory', 1, Len(conversationHistory)) = conversationHistory
              /\ IsTestPlanToolResult(conversationHistory'[Len(conversationHistory')],
                                      lastOp'.taken)
              /\ calls' = calls + 1
       /\ \A i \in 1..Len(conversationHistory') :
              \A j \in 1..Len(TestPlanMessages) :
                  conversationHistory'[i] # TestPlanMessages[j]]_vars

\* What holds instead: the generation's own messages never enter the history;
\* a generation that succeeded for a tool call with an id appends exactly the
\* ToolResult and resumes the conversation; one that failed, or whose tool
\* call has no id, leaves the history as it is and makes no further call.
TestPlanMessagesStayOutOfHistory ==
    [][/\ (lastOp'.op = "generateTestPlanResult" /\ currentTestToolID # 0) =>
              /\ Len(conversationHistory') = Len(conversationHistory) + 1
              /\ SubSeq(conversationHistory', 1, Len(conversationHistory)) = conversationHistory
              /\ IsTestPlanToolResult(conversationHistory'[Len(conversationHistory')],
                                      currentTestToolID)
              /\ calls' = calls + 1
       /\ (lastOp'.op = "backendError"
           \/ (lastOp'.op = "generateTestPlanResult" /\ currentTestToolID = 0)) =>
              /\ conversationHistory' = conversationHistory
              /\ calls' = calls
       /\ \A i \in 1..Len(conversationHistory') :
              \A j \in 1..Len(TestPlanMessages) :
                  conversationHistory'[i] # TestPlanMessages[j]]_vars

-----------------------------------------------------------------------------
\* The conversation history.

\* The history after the step is the history before it, or that with one
\* message appended.
AppendedAtMostOne ==
    \/ conversationHistory' = conversationHistory
    \/ /\ Len(conversationHistory') = Len(conversationHistory) + 1
       /\ SubSeq(conversationHistory', 1, Len(conversationHistory)) = conversationHistory

\* C32: every operation leaves the conversation history as it is or appends
\* one message at its end: no message is modified, removed or reordered.
HistoryOnlyAppendedTo == [][AppendedAtMostOne]_vars

\* What holds instead: every operation but /clear appends at most one
\* message, and /clear empties the history.
HistoryOnlyAppendedToOrCleared ==
    [][IF lastOp'.op = "clear"
       THEN conversationHistory' = <<>>
       ELSE AppendedAtMostOne]_vars

-----------------------------------------------------------------------------
\* Tool calls with an unknown name.

\* The step is handleProcessToolCalls on tool calls none of which has a known name.
ProcessedUnknownToolCalls ==
    /\ lastOp'.op = "processToolCalls"
    /\ Len(streamedToolCalls) > 0
    /\ SelectToolCall(streamedToolCalls) = NoToolCall

\* C33: when the tool calls of a response name no known tool, the step that
\* processes them reports an error, or hands the call to executeTool, whose
\* last branch answers "unknown tool".
UnknownToolCallReported ==
    [][ProcessedUnknownToolCalls =>
          \/ lastMessage' = "error"
          \/ \E c \in BagToSet(cmds') :
                c.type = "executeTool" /\ c.tc = Head(streamedToolCalls)]_vars

\* What holds instead: the step shows nothing, appends nothing, starts nothing
\* and ends in Idle.
UnknownToolCallDroppedSilently ==
    [][ProcessedUnknownToolCalls =>
          /\ lastMessage' = lastMessage
          /\ conversationHistory' = conversationHistory
          /\ Count(cmds', {"executeTool", "GenerateTestPlan", "streamReasoning"})
                = Count(cmds, {"executeTool", "GenerateTestPlan", "streamReasoning"})
          /\ agentState' = StateIdle]_vars

-----------------------------------------------------------------------------
\* The worker, the channel and the reader of a provider call.

\* The events that have left the worker, oldest first: those handled, the one
\* on its way to Update, and those in the buffer.
EventsOnTheirWay ==
    stream.received
    \o (IF stream.reader = "reasoningChunkMsg" THEN <<stream.msg>> ELSE <<>>)
    \o stream.buf

\* C34: the events handled, the one being delivered and those buffered are,
\* in this order, exactly the events pushed so far in the order the worker
\* pushed them, each once; and the buffer never holds more than the channel's
\* capacity.
EventsConsumedInOrderWithinCapacity ==
    /\ EventsOnTheirWay = [i \in 1..stream.pushed |-> i]
    /\ Len(stream.buf) <= ChannelCapacity

\* The buffer is full and the worker has its next event in hand, while the
\* reader has handled one event and waits for the next.
WorkerWaitsOnFullChannel ==
    /\ Len(stream.buf) = ChannelCapacity
    /\ stream.pushed < TotalEvents
    /\ stream.got = stream.answer.chunks + 1
    /\ stream.received = <<1>>
    /\ stream.reader = "waitForReasoning"

\* The events pushed so far that end a stream.
TerminalEventsPushed == {i \in 1..stream.pushed : EventKind(i) \in {"ERROR", "DONE"}}

-----------------------------------------------------------------------------
\* The assistant message of a completed stream.

\* The step is the "\x00DONE:" handler appending the assistant message.
StreamCompleted ==
    /\ lastOp'.op = "DONE"
    /\ Len(conversationHistory') = Len(conversationHistory) + 1
    /\ conversationHistory'[Len(conversationHistory')].role = "assistant"

\* C35: the assistant message appended when a stream completes holds the
\* visible text of the response: a response without tool calls is a text, and
\* its message holds that text whether it came as TEXT chunks or not.
AssistantMessageHoldsVisibleText ==
    [][StreamCompleted =>
           LET chatMsg == conversationHistory'[Len(conversationHistory')]
           IN  chatMsg.calls = <<>> => chatMsg.content = <<"text">>]_vars

\* What holds instead: the message holds what the "\x00AGENT:" handler kept,
\* which is the text when no TEXT chunk came before it and nothing otherwise.
AssistantMessageHoldsKeptAgentMessage ==
    [][StreamCompleted =>
           LET chatMsg == conversationHistory'[Len(conversationHistory')]
           IN  /\ chatMsg.content = streamedAgentMessage
               /\ chatMsg.content \in {<<>>, <<"text">>}]_vars

\* The history holds an assistant message with neither text nor tool calls.
EmptyAssistantMessageInHistory ==
    \E i \in 1..Len(conversationHistory) :
        /\ conversationHistory[i].role = "assistant"
        /\ conversationHistory[i].calls = <<>>
        /\ conversationHistory[i].content = <<>>

-----------------------------------------------------------------------------
\* The order of the resolved tool calls.

\* The pending tool call of fragment index idx, resolved.
Resolved(idx) ==
    FunctionCallData(pendingTools[idx].id, pendingTools[idx].name,
                     Unmarshal(pendingTools[idx].args))

\* C38: the tool calls of a streamed response are returned in ascending order
\* of their fragment index, so that the list and its first tool call are the
\* same on every run over the same stream.
ToolCallsInAscendingIndexOrder ==
    response.done =>
        /\ DOMAIN response.ToolCalls = DOMAIN pendingTools
        /\ \A idx \in DOMAIN pendingTools : response.ToolCalls[idx] = Resolved(idx)

\* What holds instead: the response holds every pending tool call once, in
\* some order.
ToolCallsInSomeOrder ==
    response.done =>
        /\ Len(response.ToolCalls) = Cardinality(DOMAIN pendingTools)
        /\ {response.ToolCalls[i] : i \in DOMAIN response.ToolCalls}
               = {Resolved(idx) : idx \in DOMAIN pendingTools}
        /\ \A i, j \in DOMAIN response.ToolCalls :
               i # j => response.ToolCalls[i].id # response.ToolCalls[j].id

\* The response of a stream with two tool calls starts with the tool call of
\* the higher fragment index.
HigherIndexToolCallFirst ==
    /\ response.done
    /\ Len(response.ToolCalls) = 2
    /\ response.ToolCalls[1] = Resolved(2)

-----------------------------------------------------------------------------
\* The non-streaming and the streaming path on the same content.

\* C37: for the same complete content, chat (stripThinkTags) and chatStream
\* (thinkTagFilter and Flush) give the same visible text and the same
\* reasoning text.
ChatAndChatStreamAgree ==
    response.done =>
        /\ response.Message = chatContent(contentStream).Message
        /\ response.Reasoning = chatContent(contentStream).Reasoning

\* Every <think> of the content is followed by a </think>.
RECURSIVE EveryThinkClosed(_)
EveryThinkClosed(s) ==
    \/ Index(s, OpenTag) = -1
    \/ /\ FindThinkBlock(s).found
       /\ EveryThinkClosed(SubSeq(s, FindThinkBlock(s).to + 1, Len(s)))

\* What holds instead: the two agree on content without a <think> tag, and
\* on content whose think blocks are all closed they agree on the visible
\* text up to the blanks at its ends, which only stripThinkTags trims.
ChatAndChatStreamAgreeUpToTrimming ==
    response.done =>
        /\ Index(contentStream, OpenTag) = -1 =>
               /\ response.Message = chatContent(contentStream).Message
               /\ response.Reasoning = chatContent(contentStream).Reasoning
        /\ EveryThinkClosed(contentStream) =>
               TrimSpace(response.Message) = TrimSpace(chatContent(contentStream).Message)

\* chatStream has ended on content with a <think> that is never closed: it
\* has reasoning and no visible text, while chat leaves the content as it is.
UnclosedThinkIsReasoningOnlyWhenStreamed ==
    /\ response.done
    /\ contentStream = OpenTag \o <<"a">>
    /\ response.Message = <<>>
    /\ response.Reasoning = <<"a">>
    /\ chatContent(contentStream).Message = contentStream

-----------------------------------------------------------------------------
\* The headers of the tests of an ExecuteTestGroup call.

\* The requests sent for the tests of a provider's ExecuteTestGroup call.
TestGroupRequests == {i \in 1..Len(httpLog) : httpLog[i].id # 0 /\ httpLog[i].n > 0}

\* C36: the request of a test of an ExecuteTestGroup call is sent with the
\* headers the provider gave for that test: every name with a string value is
\* there, unchanged by the test selection and the run queue.
TestRequestCarriesProviderHeaders ==
    \A i \in TestGroupRequests :
        httpLog[i].headers =
            {h \in ProviderHeaders(httpLog[i].n).entries : h.type = "string"}

\* What holds instead: no request of a test group carries a header of the
\* tool call.
TestRequestCarriesNoProviderHeader ==
    \A i \in TestGroupRequests : httpLog[i].headers = {}

\* A test the provider gave the header X-Test has been run.
TestWithHeaderWasRun ==
    \E i \in TestGroupRequests :
        ProviderHeaders(httpLog[i].n).entries # {} /\ ~httpLog[i].err

=============================================================================
